---- MODULE Spec2Model ----
(***************************************************************************)
(* Model of the crossref indexing and reference-resolution engine of       *)
(* obsidian-crossref-preview (src/main.js).                                *)
(*                                                                         *)
(* A JavaScript string is a sequence of UTF-16 code units (naturals); the  *)
(* regular expressions of main.js are matchers over such sequences.  Line  *)
(* numbers, offsets and loop indices are 0-based as in the source; the    *)
(* k-th element (0-based) of a sequence s is s[k + 1].                     *)
(***************************************************************************)
EXTENDS Integers, Sequences, FiniteSets, TLC

(***************************************************************************)
(* String literals of main.js, as code units.                              *)
(***************************************************************************)
S_Empty     == << >>
S_Math      == <<36, 36>>                              \* "$$"
S_Fence     == <<58, 58, 58>>                          \* ":::"
S_TokOpen   == <<123, 35>>                             \* "{#"
S_BangOpen  == <<33, 91>>                              \* "!["
S_eq        == <<101, 113>>                            \* "eq"
S_fig       == <<102, 105, 103>>                       \* "fig"
S_thm       == <<116, 104, 109>>
S_lem       == <<108, 101, 109>>
S_cor       == <<99, 111, 114>>
S_prp       == <<112, 114, 112>>
S_cnj       == <<99, 110, 106>>
S_def       == <<100, 101, 102>>
S_exm       == <<101, 120, 109>>
S_exr       == <<101, 120, 114>>
S_sol       == <<115, 111, 108>>
S_rem       == <<114, 101, 109>>
S_alg       == <<97, 108, 103>>
S_Figure    == <<70, 105, 103, 117, 114, 101>>         \* "Figure"

C_NL     == 10
C_CR     == 13
C_Space  == 32
C_Hash   == 35
C_LParen == 40
C_RParen == 41
C_Dash   == 45
C_Dot    == 46
C_At     == 64
C_RBrack == 93
C_Under  == 95
C_RBrace == 125
C_ZWSP   == 8203

\* THEOREM_PREFIX_FRAGMENT and PREFIX_FRAGMENT, in the order of the alternation
THEOREM_PREFIXES ==
    <<S_thm, S_lem, S_cor, S_prp, S_cnj, S_def, S_exm, S_exr, S_sol, S_rem, S_alg>>
PREFIXES == <<S_eq, S_fig>> \o THEOREM_PREFIXES

\* THEOREM_TITLES[prefix] || "Theorem"
THEOREM_TITLES(prefix) ==
    CASE prefix = S_thm -> <<84, 104, 101, 111, 114, 101, 109>>
      [] prefix = S_lem -> <<76, 101, 109, 109, 97>>
      [] prefix = S_cor -> <<67, 111, 114, 111, 108, 108, 97, 114, 121>>
      [] prefix = S_prp -> <<80, 114, 111, 112, 111, 115, 105, 116, 105, 111, 110>>
      [] prefix = S_cnj -> <<67, 111, 110, 106, 101, 99, 116, 117, 114, 101>>
      [] prefix = S_def -> <<68, 101, 102, 105, 110, 105, 116, 105, 111, 110>>
      [] prefix = S_exm -> <<69, 120, 97, 109, 112, 108, 101>>
      [] prefix = S_exr -> <<69, 120, 101, 114, 99, 105, 115, 101>>
      [] prefix = S_sol -> <<83, 111, 108, 117, 116, 105, 111, 110>>
      [] prefix = S_rem -> <<82, 101, 109, 97, 114, 107>>
      [] prefix = S_alg -> <<65, 108, 103, 111, 114, 105, 116, 104, 109>>
      [] OTHER -> <<84, 104, 101, 111, 114, 101, 109>>

(***************************************************************************)
(* String primitives.                                                      *)
(***************************************************************************)
\* one statement after another: F of the value x has when it is evaluated
Then(x, F(_)) == CHOOSE result \in { F(value) : value \in { x } } : TRUE

\* s.charCodeAt(i)
CharAt(s, i) == s[i + 1]

\* s.slice(from, to)
Slice(s, from, to) == SubSeq(s, from + 1, to)

\* the white space of \s and of String.prototype.trim that is below 128
IsSpace(c) == c \in {9, 10, 11, 12, 13, 32}

IsDigit(c) == c >= 48 /\ c <= 57

\* [A-Za-z0-9_]
IsWordChar(c) ==
    \/ c >= 65 /\ c <= 90
    \/ c >= 97 /\ c <= 122
    \/ IsDigit(c)
    \/ c = C_Under

\* [A-Za-z0-9_-]
IsLabelChar(c) == IsWordChar(c) \/ c = C_Dash

\* the literal lit occurs in s at offset i
LitAt(s, i, lit) ==
    /\ i + Len(lit) <= Len(s)
    /\ Slice(s, i, i + Len(lit)) = lit

\* the least and the greatest member of a non-empty set of offsets
MinOf(offsets) == CHOOSE i \in offsets : \A j \in offsets : i <= j
MaxOf(offsets) == CHOOSE i \in offsets : \A j \in offsets : i >= j

\* \s* from offset i: the offset of the first non-space at or after i
SkipSpaces(s, i) ==
    IF i >= Len(s) THEN i
    ELSE MinOf({ j \in i..Len(s) : j = Len(s) \/ ~IsSpace(CharAt(s, j)) })

\* \s*$ before offset j: the offset after the last non-space before j
SkipSpacesBack(s, j) ==
    IF j <= 0 THEN j
    ELSE MaxOf({ k \in 0..j : k = 0 \/ ~IsSpace(CharAt(s, k - 1)) })

\* s.trim()
trim(s) ==
    Then(SkipSpaces(s, 0),
         LAMBDA from :
             IF from >= Len(s) THEN S_Empty ELSE Slice(s, from, SkipSpacesBack(s, Len(s))))

\* [A-Za-z0-9_-]* from offset i
SkipLabelChars(s, i) ==
    IF i >= Len(s) THEN i
    ELSE MinOf({ j \in i..Len(s) : j = Len(s) \/ ~IsLabelChar(CharAt(s, j)) })

\* the first offset >= i of code unit c in s, or -1
IndexOfChar(s, c, i) ==
    Then({ j \in i..(Len(s) - 1) : CharAt(s, j) = c },
         LAMBDA hits : IF hits = {} THEN -1 ELSE MinOf(hits))

\* label.split("-")[0]
LabelPrefix(label) ==
    Then(IndexOfChar(label, C_Dash, 0),
         LAMBDA d : IF d < 0 THEN label ELSE Slice(label, 0, d))

RECURSIVE MatchPrefixFrom(_, _, _, _)
\* (?:p1|p2|...)-[A-Za-z0-9_-]+ at offset i, alternatives tried from the k-th
\* on: the offset after the match, or -1
MatchPrefixFrom(s, i, prefixes, k) ==
    IF k > Len(prefixes) THEN -1
    ELSE Then(SkipLabelChars(s, i + Len(prefixes[k]) + 1),
              LAMBDA end :
                  IF /\ LitAt(s, i, prefixes[k])
                     /\ i + Len(prefixes[k]) < Len(s)
                     /\ CharAt(s, i + Len(prefixes[k])) = C_Dash
                     /\ end > i + Len(prefixes[k]) + 1
                  THEN end
                  ELSE MatchPrefixFrom(s, i, prefixes, k + 1))

\* LABEL_FRAGMENT (or its theorem-only, eq-only, fig-only variants) at offset i
MatchLabelAt(s, i, prefixes) == MatchPrefixFrom(s, i, prefixes, 1)

\* \{#(<label>)\} at offset i: [end |-> offset after "}", label |-> group 1],
\* end = -1 when there is no match
MatchLabelTokenAt(s, i, prefixes) ==
    Then(IF LitAt(s, i, S_TokOpen) THEN MatchLabelAt(s, i + 2, prefixes) ELSE -1,
         LAMBDA labelEnd :
             IF labelEnd >= 0 /\ labelEnd < Len(s) /\ CharAt(s, labelEnd) = C_RBrace
             THEN [end |-> labelEnd + 1, label |-> Slice(s, i + 2, labelEnd)]
             ELSE [end |-> -1, label |-> S_Empty])

\* THEOREM_START_PATTERN: ^:::\s*\{#(<theorem label>)\}\s*$ ; group 1, or ""
TheoremStartMatch(s) ==
    IF ~LitAt(s, 0, S_Fence) THEN S_Empty
    ELSE Then(MatchLabelTokenAt(s, SkipSpaces(s, 3), THEOREM_PREFIXES),
              LAMBDA m :
                  IF m.end >= 0 /\ SkipSpaces(s, m.end) = Len(s) THEN m.label ELSE S_Empty)

THEOREM_START_PATTERN(s) == TheoremStartMatch(s) # S_Empty

\* THEOREM_END_PATTERN: ^:::\s*$
THEOREM_END_PATTERN(s) == LitAt(s, 0, S_Fence) /\ SkipSpaces(s, 3) = Len(s)

\* /^\{#(eq-[A-Za-z0-9_-]+)\}$/ ; group 1, or ""
EquationLabelMatch(s) ==
    Then(MatchLabelTokenAt(s, 0, <<S_eq>>),
         LAMBDA m : IF m.end = Len(s) THEN m.label ELSE S_Empty)

RECURSIVE SkipHashes(_, _)
SkipHashes(s, i) ==
    IF i < Len(s) /\ CharAt(s, i) = C_Hash THEN SkipHashes(s, i + 1) ELSE i

\* /^\s*#{1,6}\s+(.+)\s*$/ : [matched, title |-> group 1 trimmed]
HeadingMatch(s) ==
    Then(SkipSpaces(s, 0),
      LAMBDA h0 :
        Then(SkipHashes(s, h0),
          LAMBDA h1 :
            IF /\ h1 > h0
               /\ h1 - h0 <= 6
               /\ h1 < Len(s)
               /\ IsSpace(CharAt(s, h1))
               /\ h1 + 1 < Len(s)
            THEN [matched |-> TRUE, title |-> trim(Slice(s, h1, Len(s)))]
            ELSE [matched |-> FALSE, title |-> S_Empty]))

\* fallbackTitle.replace(/^#+\s*/, "").trim()
StripHeadingPrefix(s) ==
    Then(SkipHashes(s, 0),
         LAMBDA h1 : trim(IF h1 > 0 THEN Slice(s, SkipSpaces(s, h1), Len(s)) ELSE s))

\* the offsets of the "\n" of source
LineBreaks(source) == { i \in 0..(Len(source) - 1) : CharAt(source, i) = C_NL }

\* the k-th member of a set of offsets, k from 1
NthOffset(offsets, k) ==
    CHOOSE i \in offsets : Cardinality({ j \in offsets : j < i }) = k - 1

\* source.split(/\r?\n/): line k runs from the offset after break k - 1 to
\* break k, less the "\r" the separator takes with it
SplitAt(source, breaks) ==
    [ k \in 1..(Cardinality(breaks) + 1) |->
        Then(IF k = 1 THEN 0 ELSE NthOffset(breaks, k - 1) + 1,
          LAMBDA start :
            Then(IF k > Cardinality(breaks) THEN Len(source) ELSE NthOffset(breaks, k),
              LAMBDA break :
                Slice(source, start,
                      IF /\ break < Len(source)
                         /\ break > start
                         /\ CharAt(source, break - 1) = C_CR
                      THEN break - 1 ELSE break))) ]

splitLines(source) == SplitAt(source, LineBreaks(source))

(***************************************************************************)
(* fastHash: 32-bit FNV-1a.  A 32-bit value is kept as two 16-bit halves   *)
(* [hi, lo] so that no intermediate exceeds 2^31.                          *)
(***************************************************************************)
RECURSIVE BitXor(_, _)
BitXor(a, b) ==
    IF a = 0 THEN b
    ELSE IF b = 0 THEN a
    ELSE (((a % 2) + (b % 2)) % 2) + 2 * BitXor(a \div 2, b \div 2)

\* hash ^= text.charCodeAt(i): a code unit has 16 bits
HashXor(h, c) == [hi |-> h.hi, lo |-> BitXor(h.lo, c)]

\* hash += (hash << 1) + (hash << 4) + (hash << 7) + (hash << 8) + (hash << 24),
\* modulo 2^32: the low shifts sum to hash * 403, hash << 24 moves the low
\* byte of hash to the top byte
HashShiftAdd(h) ==
    LET low == h.lo * (1 + 2 + 16 + 128 + 256)
        high == h.hi * (1 + 2 + 16 + 128 + 256) + (low \div 65536) + (h.lo % 256) * 256
    IN  [hi |-> high % 65536, lo |-> low % 65536]

RECURSIVE HashFrom(_, _, _, _)
\* the for loop over the code units from offset i to offset j, hash = h
\* before it: the first half of the range, then the second
HashFrom(text, i, j, h) ==
    IF i >= j THEN h
    ELSE IF j = i + 1 THEN HashShiftAdd(HashXor(h, CharAt(text, i)))
    ELSE CHOOSE result \in
             { HashFrom(text, (i + j) \div 2, j, half) :
                   half \in { HashFrom(text, i, (i + j) \div 2, h) } } : TRUE

HexDigit(n) == IF n < 10 THEN 48 + n ELSE 87 + n

RECURSIVE HexHalf(_, _)
\* the k low hex digits of n
HexHalf(n, k) ==
    IF k = 0 THEN << >> ELSE HexHalf(n \div 16, k - 1) \o << HexDigit(n % 16) >>

RECURSIVE HexNoLead(_)
HexNoLead(n) ==
    IF n < 16 THEN << HexDigit(n) >> ELSE HexNoLead(n \div 16) \o << HexDigit(n % 16) >>

\* (hash >>> 0).toString(16)
ToHex(h) == IF h.hi = 0 THEN HexNoLead(h.lo) ELSE HexNoLead(h.hi) \o HexHalf(h.lo, 4)

\* 2166136261 = 0x811C9DC5
fastHash(text) == ToHex(HashFrom(text, 0, Len(text), [hi |-> 33052, lo |-> 40389]))

(***************************************************************************)
(* Line offsets.                                                           *)
(***************************************************************************)
\* the offset after each "\n", in order
OffsetsAfter(breaks) == [ k \in 1..Cardinality(breaks) |-> NthOffset(breaks, k) + 1 ]

buildLineOffsets(source) == << 0 >> \o OffsetsAfter(LineBreaks(source))

RECURSIVE OffsetSearch(_, _, _, _)
OffsetSearch(lineOffsets, offset, left, right) ==
    IF left > right THEN right
    ELSE Then((left + right) \div 2,
              LAMBDA mid :
                  IF lineOffsets[mid + 1] <= offset
                  THEN OffsetSearch(lineOffsets, offset, mid + 1, right)
                  ELSE OffsetSearch(lineOffsets, offset, left, mid - 1))

Max(a, b) == IF a >= b THEN a ELSE b
Min(a, b) == IF a <= b THEN a ELSE b

offsetToLine(lineOffsets, offset) ==
    Max(0, OffsetSearch(lineOffsets, offset, 0, Len(lineOffsets) - 1))

\* nextLineIndex < lineOffsets.length ? lineOffsets[nextLineIndex] : source.length
OffsetOfLineOrEnd(source, lineOffsets, nextLineIndex) ==
    IF nextLineIndex < Len(lineOffsets) THEN lineOffsets[nextLineIndex + 1] ELSE Len(source)

(***************************************************************************)
(* parseCrossrefIndex.  The Map `labels` is the sequence of its values in  *)
(* insertion order; the scan state carries it with the three counters.     *)
(***************************************************************************)
TheoremPrefixSet == { THEOREM_PREFIXES[k] : k \in DOMAIN THEOREM_PREFIXES }

\* labels.has(label)
HasLabel(labels, label) == \E k \in DOMAIN labels : labels[k].label = label

\* labels.get(label), for a label the map has
GetLabel(labels, label) ==
    labels[CHOOSE k \in DOMAIN labels : labels[k].label = label]

EmptyScan ==
    [ labels |-> << >>,
      equationCounter |-> 0,
      figureCounter |-> 0,
      theoremCounters |-> [p \in TheoremPrefixSet |-> 0] ]

RECURSIVE SumCounters(_, _)
SumCounters(counters, k) ==
    IF k = 0 THEN 0 ELSE counters[THEOREM_PREFIXES[k]] + SumCounters(counters, k - 1)

\* mutant: one counter shared by all theorem-like categories
NextNumber_sharedTheoremCounter(st, kind, prefix) ==
    IF kind = "equation" THEN st.equationCounter + 1
    ELSE IF kind = "figure" THEN st.figureCounter + 1
    ELSE SumCounters(st.theoremCounters, Len(THEOREM_PREFIXES)) + 1

\* the counter of the label's numbering scope, incremented (lines 185-195)
NextNumber(st, kind, prefix) ==
    IF kind = "equation" THEN st.equationCounter + 1
    ELSE IF kind = "figure" THEN st.figureCounter + 1
    ELSE st.theoremCounters[prefix] + 1

\* mutant: lineEnd is the line of endOffset, the line after the block
addLabel_endOnNextLine(st, lineOffsets, label, kind, startOffset, endOffset, title) ==
    IF HasLabel(st.labels, label) THEN st
    ELSE Then(LabelPrefix(label),
           LAMBDA prefix :
             Then(NextNumber(st, kind, prefix),
               LAMBDA number :
                 [ labels |->
                       Append(st.labels,
                           [ label |-> label,
                             kind |-> kind,
                             prefix |-> prefix,
                             number |-> number,
                             title |-> title,
                             lineStart |-> offsetToLine(lineOffsets, startOffset),
                             lineEnd |-> offsetToLine(lineOffsets,
                                                      Max(startOffset, endOffset)) ]),
                   equationCounter |->
                       IF kind = "equation" THEN number ELSE st.equationCounter,
                   figureCounter |->
                       IF kind = "figure" THEN number ELSE st.figureCounter,
                   theoremCounters |->
                       IF kind = "theorem"
                       THEN [st.theoremCounters EXCEPT ![prefix] = number]
                       ELSE st.theoremCounters ]))

\* addLabel(label, kind, startOffset, endOffset, title)
addLabel(st, lineOffsets, label, kind, startOffset, endOffset, title) ==
    IF HasLabel(st.labels, label) THEN st
    ELSE Then(LabelPrefix(label),
           LAMBDA prefix :
             Then(NextNumber(st, kind, prefix),
               LAMBDA number :
                 [ labels |->
                       Append(st.labels,
                           [ label |-> label,
                             kind |-> kind,
                             prefix |-> prefix,
                             number |-> number,
                             title |-> title,
                             lineStart |-> offsetToLine(lineOffsets, startOffset),
                             lineEnd |-> offsetToLine(lineOffsets,
                                                      Max(startOffset, endOffset - 1)) ]),
                   equationCounter |->
                       IF kind = "equation" THEN number ELSE st.equationCounter,
                   figureCounter |->
                       IF kind = "figure" THEN number ELSE st.figureCounter,
                   theoremCounters |->
                       IF kind = "theorem"
                       THEN [st.theoremCounters EXCEPT ![prefix] = number]
                       ELSE st.theoremCounters ]))

IsMathDelimiter(line) == trim(line) = S_Math

RECURSIVE FindMathClose(_, _)
\* the first j' >= j with lines[j'].trim() === "$$", or -1
FindMathClose(lines, j) ==
    IF j >= Len(lines) THEN -1
    ELSE IF IsMathDelimiter(lines[j + 1]) THEN j ELSE FindMathClose(lines, j + 1)

RECURSIVE SkipBlankLines(_, _)
SkipBlankLines(lines, labelLine) ==
    IF labelLine < Len(lines) /\ trim(lines[labelLine + 1]) = S_Empty
    THEN SkipBlankLines(lines, labelLine + 1)
    ELSE labelLine

\* mutant: the scan resumes on the line after the opening delimiter
EquationIter_resumesAfterOpening(source, lineOffsets, lines, i, st) ==
    IF ~IsMathDelimiter(lines[i + 1]) THEN [i |-> i, st |-> st]
    ELSE Then(FindMathClose(lines, i + 1),
           LAMBDA endLine :
             IF endLine < 0 THEN [i |-> i, st |-> st]
             ELSE Then(SkipBlankLines(lines, endLine + 1),
                    LAMBDA labelLine :
                      Then(IF labelLine < Len(lines)
                           THEN EquationLabelMatch(trim(lines[labelLine + 1]))
                           ELSE S_Empty,
                        LAMBDA labelMatch :
                          [ i |-> i,
                            st |-> IF labelMatch # S_Empty
                                   THEN addLabel(st, lineOffsets, labelMatch, "equation",
                                            lineOffsets[i + 1],
                                            OffsetOfLineOrEnd(source, lineOffsets,
                                                              labelLine + 1),
                                            S_Empty)
                                   ELSE st ])))

\* one iteration of the equation loop, at line i: [i |-> the value of i when
\* the iteration ends (before i += 1), st |-> the scan state]
EquationIter(source, lineOffsets, lines, i, st) ==
    IF ~IsMathDelimiter(lines[i + 1]) THEN [i |-> i, st |-> st]
    ELSE Then(FindMathClose(lines, i + 1),
           LAMBDA endLine :
             IF endLine < 0 THEN [i |-> i, st |-> st]
             ELSE Then(SkipBlankLines(lines, endLine + 1),
                    LAMBDA labelLine :
                      Then(IF labelLine < Len(lines)
                           THEN EquationLabelMatch(trim(lines[labelLine + 1]))
                           ELSE S_Empty,
                        LAMBDA labelMatch :
                          [ i |-> endLine,
                            st |-> IF labelMatch # S_Empty
                                   THEN addLabel(st, lineOffsets, labelMatch, "equation",
                                            lineOffsets[i + 1],
                                            OffsetOfLineOrEnd(source, lineOffsets,
                                                              labelLine + 1),
                                            S_Empty)
                                   ELSE st ])))

RECURSIVE EquationScan(_, _, _, _, _)
EquationScan(source, lineOffsets, lines, i, st) ==
    IF i >= Len(lines) THEN st
    ELSE Then(EquationIter(source, lineOffsets, lines, i, st),
              LAMBDA it : EquationScan(source, lineOffsets, lines, it.i + 1, it.st))

\* figurePattern /!\[[^\]]*]\([^)]+\)\s*\{#(fig-[A-Za-z0-9_-]+)\}/ at offset i:
\* [end, label], end = -1 when there is no match
FigureMatchAt(source, i) ==
    Then(IF LitAt(source, i, S_BangOpen)
         THEN IndexOfChar(source, C_RBrack, i + 2) ELSE -1,
      LAMBDA rb :
        Then(IF rb >= 0 /\ rb + 1 < Len(source) /\ CharAt(source, rb + 1) = C_LParen
             THEN IndexOfChar(source, C_RParen, rb + 2) ELSE -1,
          LAMBDA rp :
            IF rp > rb + 2
            THEN MatchLabelTokenAt(source, SkipSpaces(source, rp + 1), <<S_fig>>)
            ELSE [end |-> -1, label |-> S_Empty]))

\* figurePattern.exec(source) with lastIndex = from: [index, end, label],
\* index = -1 when exec returns null
FigureExec(source, from) ==
    Then({ i \in from..(Len(source) - 1) : FigureMatchAt(source, i).end >= 0 },
      LAMBDA hits :
        IF hits = {} THEN [index |-> -1, end |-> -1, label |-> S_Empty]
        ELSE Then(FigureMatchAt(source, MinOf(hits)),
                  LAMBDA m : [index |-> MinOf(hits), end |-> m.end, label |-> m.label]))

RECURSIVE FigureScan(_, _, _, _)
\* the exec loop of the global figurePattern, from lastIndex = from
FigureScan(source, lineOffsets, from, st) ==
    Then(FigureExec(source, from),
      LAMBDA match :
        IF match.index < 0 THEN st
        ELSE Then(addLabel(st, lineOffsets, match.label, "figure",
                           match.index, match.end, S_Empty),
                  LAMBDA next : FigureScan(source, lineOffsets, match.end, next)))

RECURSIVE TheoremBodyScan(_, _, _, _, _)
\* the inner for loop of the theorem scan, from `cursor`
TheoremBodyScan(lines, i, cursor, title, blockEndLine) ==
    IF cursor >= Len(lines)
    THEN [cursor |-> cursor, title |-> title, blockEndLine |-> blockEndLine,
          implicitClosedByNextStart |-> FALSE]
    ELSE Then(trim(lines[cursor + 1]),
           LAMBDA currentTrimmed :
             Then(HeadingMatch(lines[cursor + 1]),
               LAMBDA headingMatch :
                 Then(IF title = S_Empty /\ headingMatch.matched
                      THEN headingMatch.title ELSE title,
                   LAMBDA title2 :
                     IF THEOREM_END_PATTERN(currentTrimmed)
                     THEN [cursor |-> cursor, title |-> title2, blockEndLine |-> cursor,
                           implicitClosedByNextStart |-> FALSE]
                     ELSE IF THEOREM_START_PATTERN(currentTrimmed)
                     THEN [cursor |-> cursor - 1, title |-> title2,
                           blockEndLine |-> Max(i, cursor - 1),
                           implicitClosedByNextStart |-> TRUE]
                     ELSE TheoremBodyScan(lines, i, cursor + 1, title2, cursor))))

\* descriptor.title = ... on the descriptor labels.get(label)
SetTitle(labels, label, title) ==
    [k \in DOMAIN labels |->
        IF labels[k].label = label THEN [labels[k] EXCEPT !.title = title] ELSE labels[k]]

\* the late title patch after addLabel, lines 299-308
FallbackTitlePatch(st, lines, i, label, block) ==
    IF block.implicitClosedByNextStart /\ block.title = S_Empty
    THEN Then(trim(IF i + 1 < Len(lines) THEN lines[i + 2] ELSE S_Empty),
           LAMBDA fallbackTitle :
             IF /\ fallbackTitle # S_Empty
                /\ ~THEOREM_START_PATTERN(fallbackTitle)
                /\ ~THEOREM_END_PATTERN(fallbackTitle)
                /\ HasLabel(st.labels, label)
                /\ GetLabel(st.labels, label).title = S_Empty
             THEN [st EXCEPT !.labels = SetTitle(st.labels, label,
                                                 StripHeadingPrefix(fallbackTitle))]
             ELSE st)
    ELSE st

\* mutant: a block that runs to the end of the document is not registered
TheoremIter_skipsUnterminated(source, lineOffsets, lines, i, st) ==
    Then(TheoremStartMatch(trim(lines[i + 1])),
      LAMBDA label :
        IF label = S_Empty THEN [i |-> i, st |-> st]
        ELSE Then(TheoremBodyScan(lines, i, i + 1, S_Empty, i),
               LAMBDA block :
                 IF block.cursor >= Len(lines) THEN [i |-> block.cursor, st |-> st]
                 ELSE Then(addLabel(st, lineOffsets, label, "theorem",
                                    lineOffsets[i + 1],
                                    OffsetOfLineOrEnd(source, lineOffsets,
                                                      block.blockEndLine + 1),
                                    block.title),
                        LAMBDA st2 :
                          [ i |-> block.cursor,
                            st |-> FallbackTitlePatch(st2, lines, i, label, block) ])))

\* mutant: the block ends where its last line starts
TheoremIter_endsOneLineEarly(source, lineOffsets, lines, i, st) ==
    Then(TheoremStartMatch(trim(lines[i + 1])),
      LAMBDA label :
        IF label = S_Empty THEN [i |-> i, st |-> st]
        ELSE Then(TheoremBodyScan(lines, i, i + 1, S_Empty, i),
               LAMBDA block :
                 Then(addLabel(st, lineOffsets, label, "theorem",
                               lineOffsets[i + 1],
                               OffsetOfLineOrEnd(source, lineOffsets, block.blockEndLine),
                               block.title),
                   LAMBDA st2 :
                     [ i |-> block.cursor,
                       st |-> FallbackTitlePatch(st2, lines, i, label, block) ])))

\* one iteration of the theorem loop, at line i: [i |-> the value of i when
\* the iteration ends (before i += 1), st |-> the scan state]
TheoremIter(source, lineOffsets, lines, i, st) ==
    Then(TheoremStartMatch(trim(lines[i + 1])),
      LAMBDA label :
        IF label = S_Empty THEN [i |-> i, st |-> st]
        ELSE Then(TheoremBodyScan(lines, i, i + 1, S_Empty, i),
               LAMBDA block :
                 Then(addLabel(st, lineOffsets, label, "theorem",
                               lineOffsets[i + 1],
                               OffsetOfLineOrEnd(source, lineOffsets, block.blockEndLine + 1),
                               block.title),
                   LAMBDA st2 :
                     [ i |-> block.cursor,
                       st |-> FallbackTitlePatch(st2, lines, i, label, block) ])))

RECURSIVE TheoremScan(_, _, _, _, _)
TheoremScan(source, lineOffsets, lines, i, st) ==
    IF i >= Len(lines) THEN st
    ELSE Then(TheoremIter(source, lineOffsets, lines, i, st),
              LAMBDA it : TheoremScan(source, lineOffsets, lines, it.i + 1, it.st))

\* the index { labels }: the label descriptors in insertion order
parseCrossrefIndex(source) ==
    Then(buildLineOffsets(source),
      LAMBDA lineOffsets :
        Then(splitLines(source),
          LAMBDA lines :
            Then(EquationScan(source, lineOffsets, lines, 0, EmptyScan),
              LAMBDA afterEquations :
                Then(FigureScan(source, lineOffsets, 0, afterEquations),
                  LAMBDA afterFigures :
                    TheoremScan(source, lineOffsets, lines, 0, afterFigures).labels))))

(***************************************************************************)
(* Source documents.  The editor buffer `doc` is a sequence of lines;      *)
(* editor.getValue() joins them with "\n".  The lines typed are drawn from *)
(* three families: display-math lines, theorem-block lines, and all lines. *)
(***************************************************************************)
L_Blank    == S_Empty
L_Math     == S_Math
L_EqA      == <<123, 35, 101, 113, 45, 97, 125>>                       \* {#eq-a}
L_EqB      == <<123, 35, 101, 113, 45, 98, 125>>                       \* {#eq-b}
L_Text     == <<98, 111, 100, 121>>                                    \* body
L_Heading  == <<35, 35, 32, 72>>                                       \* ## H
L_OpenThmA == <<58, 58, 58, 123, 35, 116, 104, 109, 45, 97, 125>>      \* :::{#thm-a}
L_OpenThmB == <<58, 58, 58, 123, 35, 116, 104, 109, 45, 98, 125>>      \* :::{#thm-b}
L_OpenLemA == <<58, 58, 58, 123, 35, 108, 101, 109, 45, 97, 125>>      \* :::{#lem-a}
L_Close    == S_Fence                                                  \* :::
L_FigA     == <<33, 91, 99, 93, 40, 117, 41, 123, 35, 102, 105, 103, 45, 97, 125>>  \* ![c](u){#fig-a}
L_FigB     == <<33, 91, 99, 93, 40, 117, 41, 123, 35, 102, 105, 103, 45, 98, 125>>  \* ![c](u){#fig-b}

EquationLines == {L_Math, L_Blank, L_EqA, L_EqB, L_Text}
TheoremLines  == {L_OpenThmA, L_OpenThmB, L_OpenLemA, L_Close, L_Heading, L_Text, L_Blank}
AllLines      == EquationLines \cup TheoremLines \cup {L_FigA, L_FigB}
ScanLines     == {L_OpenThmA, L_OpenLemA, L_Close, L_Text, L_Math, L_EqA, L_FigA}

MaxEquationLines == 6
MaxTheoremLines  == 4
MaxMixedLines    == 3
MaxScanLines     == 4

RECURSIVE JoinLines(_)
\* editor.getValue(): the lines joined by "\n"
JoinLines(lines) ==
    IF Len(lines) = 0 THEN S_Empty
    ELSE IF Len(lines) = 1 THEN lines[1]
    ELSE lines[1] \o << C_NL >> \o JoinLines(Tail(lines))

LinesIn(lines, alphabet, bound) ==
    Len(lines) <= bound /\ \A k \in DOMAIN lines : lines[k] \in alphabet

InputDoc(lines) ==
    \/ LinesIn(lines, EquationLines, MaxEquationLines)
    \/ LinesIn(lines, TheoremLines, MaxTheoremLines)
    \/ LinesIn(lines, AllLines, MaxMixedLines)

(***************************************************************************)
(* The rendered document: a tree of nodes.  A text node has tag "#text"    *)
(* and its nodeValue in text; an element has its children in kids, its     *)
(* classList in classes and its dataset in data (an absent entry is the    *)
(* empty string).  A node is designated by its path, the 1-based child     *)
(* indices from the root of its tree; NoNode designates no node (null).    *)
(***************************************************************************)
NoNode == << 0 >>

NoData ==
    [ crossrefTarget |-> S_Empty, crossrefKind |-> "", crossrefLabel |-> S_Empty,
      crossrefMissing |-> S_Empty, label |-> S_Empty, href |-> S_Empty,
      crossrefLineStart |-> S_Empty, crossrefLineEnd |-> S_Empty ]

\* document.createTextNode(value)
TextNode(value) ==
    [ tag |-> "#text", classes |-> {}, id |-> S_Empty, href |-> S_Empty, display |-> FALSE,
      data |-> NoData, text |-> value, kids |-> << >> ]

\* document.createElement(tag), with a className and children
Element(tag, classes, kids) ==
    [ tag |-> tag, classes |-> classes, id |-> S_Empty, href |-> S_Empty, display |-> FALSE,
      data |-> NoData, text |-> S_Empty, kids |-> kids ]

IsText(node) == node.tag = "#text"

RECURSIVE NodeAt(_, _)
\* the node of the tree at a path
NodeAt(tree, path) ==
    IF path = << >> THEN tree ELSE NodeAt(tree.kids[Head(path)], Tail(path))

RECURSIVE PathsFrom(_, _, _)
\* the paths of the descendants of `node` (which is at `base`) through its
\* children k, k+1, ..., in document order
PathsFrom(node, base, k) ==
    IF k > Len(node.kids) THEN << >>
    ELSE << Append(base, k) >>
             \o PathsFrom(node.kids[k], Append(base, k), 1)
             \o PathsFrom(node, base, k + 1)

\* the descendants of the node at `root`, in document order
Descendants(tree, root) == PathsFrom(NodeAt(tree, root), root, 1)

\* root.querySelectorAll(selector), the selector given as a test on nodes
querySelectorAll(tree, root, Matches(_)) ==
    SelectSeq(Descendants(tree, root), LAMBDA p : Matches(NodeAt(tree, p)))

\* root.querySelector(selector)
querySelector(tree, root, Matches(_)) ==
    LET all == querySelectorAll(tree, root, Matches)
    IN  IF all = << >> THEN NoNode ELSE all[1]

\* node.closest(selector): the nearest inclusive ancestor that matches
closest(tree, path, Matches(_)) ==
    LET hits == { n \in 0..Len(path) : Matches(NodeAt(tree, SubSeq(path, 1, n))) }
    IN  IF path = NoNode \/ hits = {} THEN NoNode
        ELSE SubSeq(path, 1, CHOOSE n \in hits : \A m \in hits : m <= n)

\* node.parentElement (the document is not an element)
parentElement(tree, path) ==
    IF path = << >> \/ NodeAt(tree, SubSeq(path, 1, Len(path) - 1)).tag = "#document"
    THEN NoNode
    ELSE SubSeq(path, 1, Len(path) - 1)

RECURSIVE TextOfKids(_, _)
TextOfKids(node, k) ==
    IF k > Len(node.kids) THEN S_Empty
    ELSE (IF IsText(node.kids[k]) THEN node.kids[k].text ELSE TextOfKids(node.kids[k], 1))
             \o TextOfKids(node, k + 1)

\* node.textContent
textContent(node) == IF IsText(node) THEN node.text ELSE TextOfKids(node, 1)

\* .replace(/\u200b/g, "")
RemoveZeroWidth(s) == SelectSeq(s, LAMBDA c : c # C_ZWSP)

\* normalizeText(element)
normalizeText(node) == trim(RemoveZeroWidth(textContent(node)))

RECURSIVE SetNode(_, _, _)
\* the tree with the node at `path` replaced by `node`
SetNode(tree, path, node) ==
    IF path = << >> THEN node
    ELSE [tree EXCEPT !.kids[Head(path)] = SetNode(@, Tail(path), node)]

RECURSIVE Splice(_, _, _)
\* the tree with the node at `path` (not the root) replaced by the nodes
\* `nodes`: replaceChild(fragment, node); node.remove() when nodes is empty
Splice(tree, path, nodes) ==
    IF Len(path) = 1
    THEN [tree EXCEPT !.kids = SubSeq(@, 1, path[1] - 1) \o nodes
                                   \o SubSeq(@, path[1] + 1, Len(@))]
    ELSE [tree EXCEPT !.kids[Head(path)] = Splice(@, Tail(path), nodes)]

\* element.appendChild(node), element.prepend(node), element.replaceChildren(...)
appendChild(tree, path, node) ==
    SetNode(tree, path, [NodeAt(tree, path) EXCEPT !.kids = Append(@, node)])
prepend(tree, path, node) ==
    SetNode(tree, path, [NodeAt(tree, path) EXCEPT !.kids = << node >> \o @])
replaceChildren(tree, path, nodes) ==
    SetNode(tree, path, [NodeAt(tree, path) EXCEPT !.kids = nodes])

\* element.textContent = value
SetTextContent(node, value) ==
    [node EXCEPT !.kids = IF value = S_Empty THEN << >> ELSE << TextNode(value) >>]

(***************************************************************************)
(* References to nodes held across a change of the tree.  A change is      *)
(* recorded as an edit [at, count, kids]: the node at `at` was replaced by *)
(* `count` nodes (kids = FALSE), or the children of the node at `at` were  *)
(* replaced (kids = TRUE); an insertion before the node at `at` is the     *)
(* edit [at, count |-> 1, kids |-> FALSE, insert |-> TRUE].                *)
(***************************************************************************)
IsPrefix(p, q) == Len(p) <= Len(q) /\ SubSeq(q, 1, Len(p)) = p

Replaced(at, count) == [at |-> at, count |-> count, kids |-> FALSE, insert |-> FALSE]
Inserted(at) == [at |-> at, count |-> 1, kids |-> FALSE, insert |-> TRUE]
KidsReplaced(at) == [at |-> at, count |-> 0, kids |-> TRUE, insert |-> FALSE]

\* where the node that was at path p is after the edit; NoNode when it has
\* left the tree
AfterEdit(p, edit) ==
    LET n == Len(edit.at)
    IN  IF p = NoNode THEN NoNode
        ELSE IF edit.kids
        THEN IF IsPrefix(edit.at, p) /\ Len(p) > n THEN NoNode ELSE p
        ELSE IF Len(p) < n \/ SubSeq(p, 1, n - 1) # SubSeq(edit.at, 1, n - 1) THEN p
        ELSE IF edit.insert
        THEN IF p[n] >= edit.at[n] THEN [p EXCEPT ![n] = @ + 1] ELSE p
        ELSE IF p[n] = edit.at[n] THEN NoNode
        ELSE IF p[n] > edit.at[n] THEN [p EXCEPT ![n] = @ + edit.count - 1]
        ELSE p

RECURSIVE AfterEdits(_, _)
AfterEdits(p, edits) ==
    IF edits = << >> THEN p ELSE AfterEdits(AfterEdit(p, Head(edits)), Tail(edits))

\* the references of a list after the edits
AllAfterEdits(paths, edits) == [k \in DOMAIN paths |-> AfterEdits(paths[k], edits)]

(***************************************************************************)
(* Decoration of a rendered fragment.  Operators that change the shape of  *)
(* the tree work on a record [tree, edits], the edits made so far.         *)
(***************************************************************************)
RECURSIVE ToDecimal(_)
\* String(n), n a natural number
ToDecimal(n) ==
    IF n < 10 THEN << 48 + n >> ELSE ToDecimal(n \div 10) \o << 48 + (n % 10) >>

RECURSIVE FromDecimal(_, _)
\* Number(s) for a string of digits: the value of its first k digits
FromDecimal(s, k) ==
    IF k = 0 THEN 0 ELSE 10 * FromDecimal(s, k - 1) + (s[k] - 48)

\* descriptorDisplay(descriptor)
descriptorDisplay(descriptor) ==
    IF descriptor.kind = "equation"
    THEN << C_LParen >> \o ToDecimal(descriptor.number) \o << C_RParen >>
    ELSE IF descriptor.kind = "figure"
    THEN S_Figure \o << C_Space >> \o ToDecimal(descriptor.number)
    ELSE THEOREM_TITLES(descriptor.prefix) \o << C_Space >> \o ToDecimal(descriptor.number)

\* `crossref-${kind}` and `crossref-ref-${kind}`
KindClass(kind) ==
    CASE kind = "equation" -> "crossref-equation"
      [] kind = "figure" -> "crossref-figure"
      [] OTHER -> "crossref-theorem"
RefKindClass(kind) ==
    CASE kind = "equation" -> "crossref-ref-equation"
      [] kind = "figure" -> "crossref-ref-figure"
      [] OTHER -> "crossref-ref-theorem"

\* `crossref-theorem-${descriptor.prefix}`
TheoremPrefixClass(prefix) ==
    CASE prefix = S_thm -> "crossref-theorem-thm"
      [] prefix = S_lem -> "crossref-theorem-lem"
      [] prefix = S_cor -> "crossref-theorem-cor"
      [] prefix = S_prp -> "crossref-theorem-prp"
      [] prefix = S_cnj -> "crossref-theorem-cnj"
      [] prefix = S_def -> "crossref-theorem-def"
      [] prefix = S_exm -> "crossref-theorem-exm"
      [] prefix = S_exr -> "crossref-theorem-exr"
      [] prefix = S_sol -> "crossref-theorem-sol"
      [] prefix = S_rem -> "crossref-theorem-rem"
      [] OTHER -> "crossref-theorem-alg"

\* s.includes(lit)
Includes(s, lit) == \E i \in 0..Len(s) : LitAt(s, i, lit)

\* "a, code, pre, .math, mjx-container, .cm-inline-code, .cm-formatting-code,
\*  .crossref-eq-number, .crossref-fig-number, .crossref-theorem-title"
SkipSelector(node) ==
    \/ node.tag \in {"a", "code", "pre", "mjx-container"}
    \/ node.classes \cap {"math", "cm-inline-code", "cm-formatting-code",
                          "crossref-eq-number", "crossref-fig-number",
                          "crossref-theorem-title"} # {}

\* shouldSkipTextNode(textNode)
shouldSkipTextNode(tree, path) ==
    \/ parentElement(tree, path) = NoNode
    \/ closest(tree, parentElement(tree, path), SkipSelector) # NoNode

\* collectTextNodes(root, (node) => !this.shouldSkipTextNode(node))
collectTextNodes(tree, root) ==
    SelectSeq(Descendants(tree, root),
              LAMBDA p : IsText(NodeAt(tree, p)) /\ ~shouldSkipTextNode(tree, p))

RECURSIVE RemoveLabelTokens(_, _)
\* raw.replace(LABEL_TOKEN_PATTERN, ""), from offset i: what is before the
\* next token, then the rest after it
RemoveLabelTokens(s, i) ==
    LET hits == { j \in i..(Len(s) - 1) : MatchLabelTokenAt(s, j, PREFIXES).end >= 0 }
    IN  IF hits = {} THEN Slice(s, i, Len(s))
        ELSE Slice(s, i, MinOf(hits))
                 \o RemoveLabelTokens(s, MatchLabelTokenAt(s, MinOf(hits), PREFIXES).end)

\* the body of the loop of stripLabelTokens for one text node
StripTextNode(tree, path) ==
    LET raw == NodeAt(tree, path).text
        parent == parentElement(tree, path)
    IN  IF ~Includes(raw, S_TokOpen) THEN tree
        ELSE IF THEOREM_START_PATTERN(trim(raw)) THEN tree
        ELSE IF parent # NoNode /\ THEOREM_START_PATTERN(normalizeText(NodeAt(tree, parent)))
        THEN tree
        ELSE SetNode(tree, path, [NodeAt(tree, path) EXCEPT !.text = RemoveLabelTokens(raw, 0)])

RECURSIVE StripEach(_, _, _)
StripEach(tree, nodes, k) ==
    IF k > Len(nodes) THEN tree
    ELSE Then(StripTextNode(tree, nodes[k]), LAMBDA next : StripEach(next, nodes, k + 1))

\* stripLabelTokens(root): changes node values only
stripLabelTokens(tree, root) ==
    Then(collectTextNodes(tree, root), LAMBDA nodes : StripEach(tree, nodes, 1))

\* REF_PATTERN.exec(text) with lastIndex = from: [index, end] of the next
\* match of @(LABEL_FRAGMENT), index = -1 when there is none
FindRef(text, from) ==
    LET hits == { i \in from..(Len(text) - 1) :
                    CharAt(text, i) = C_At /\ MatchLabelAt(text, i + 1, PREFIXES) >= 0 }
    IN  IF hits = {} THEN [index |-> -1, end |-> -1]
        ELSE [index |-> MinOf(hits), end |-> MatchLabelAt(text, MinOf(hits) + 1, PREFIXES)]

\* mutant: a reference glued to a word is substituted as well
PrecededByWordChar_never(text, atIndex) == FALSE

\* atIndex > 0 && /[A-Za-z0-9_]/.test(previous)
PrecededByWordChar(text, atIndex) == atIndex > 0 /\ IsWordChar(CharAt(text, atIndex - 1))

\* `${sourcePath}` as code units
PathText(sourcePath) ==
    CASE sourcePath = "a.md" -> <<97, 46, 109, 100>>
      [] sourcePath = "b.md" -> <<98, 46, 109, 100>>
      [] OTHER -> S_Empty

\* the link made for a label of the index
ReferenceLink(descriptor, label, sourcePath) ==
    [ Element("a", {"crossref-ref", RefKindClass(descriptor.kind)},
              << TextNode(descriptorDisplay(descriptor)) >>)
      EXCEPT !.href = << C_Hash >> \o label,
             !.data.href = PathText(sourcePath) \o << C_Hash >> \o label,
             !.data.crossrefLabel = label ]

\* the marker made for a label the index has not
MissingMarker(label, raw) ==
    [ Element("span", {"crossref-ref", "crossref-ref-missing"}, << TextNode(raw) >>)
      EXCEPT !.data.crossrefMissing = label ]

ReferenceNode(text, match, index, sourcePath) ==
    LET label == Slice(text, match.index + 1, match.end)
    IN  IF HasLabel(index, label)
        THEN ReferenceLink(GetLabel(index, label), label, sourcePath)
        ELSE MissingMarker(label, Slice(text, match.index, match.end))

RECURSIVE ReferenceLoop(_, _, _, _, _, _)
\* the while loop of replaceReferencesInNode: [cursor, nodes] when it ends;
\* replaced is true exactly when nodes is not empty
ReferenceLoop(text, from, cursor, nodes, index, sourcePath) ==
    Then(FindRef(text, from),
         LAMBDA match :
             IF match.index < 0 THEN [cursor |-> cursor, nodes |-> nodes]
             ELSE IF PrecededByWordChar(text, match.index)
             THEN ReferenceLoop(text, match.end, cursor, nodes, index, sourcePath)
             ELSE Then(nodes \o (IF match.index > cursor
                                 THEN << TextNode(Slice(text, cursor, match.index)) >>
                                 ELSE << >>)
                             \o << ReferenceNode(text, match, index, sourcePath) >>,
                       LAMBDA more :
                           ReferenceLoop(text, match.end, match.end, more, index, sourcePath)))

\* the fragment replaceReferencesInNode builds; empty when nothing is replaced
ReferenceFragment(text, index, sourcePath) ==
    Then(ReferenceLoop(text, 0, 0, << >>, index, sourcePath),
         LAMBDA loop :
             IF loop.nodes = << >> THEN << >>
             ELSE loop.nodes \o (IF loop.cursor < Len(text)
                                 THEN << TextNode(Slice(text, loop.cursor, Len(text))) >>
                                 ELSE << >>))

\* replaceReferencesInNode(textNode, index, sourcePath)
replaceReferencesInNode(st, path, index, sourcePath) ==
    Then(ReferenceFragment(NodeAt(st.tree, path).text, index, sourcePath),
         LAMBDA fragment :
             IF fragment = << >> THEN st
             ELSE [ tree |-> Splice(st.tree, path, fragment),
                    edits |-> Append(st.edits, Replaced(path, Len(fragment))) ])

RECURSIVE ReferencesEach(_, _, _, _, _, _)
\* the loop of decorateReferences over the text nodes collected when `since`
\* edits had been made
ReferencesEach(st, nodes, k, since, index, sourcePath) ==
    IF k > Len(nodes) THEN st
    ELSE Then(AfterEdits(nodes[k], SubSeq(st.edits, since + 1, Len(st.edits))),
              LAMBDA path :
                  Then(IF Includes(NodeAt(st.tree, path).text, << C_At >>)
                       THEN replaceReferencesInNode(st, path, index, sourcePath) ELSE st,
                       LAMBDA next :
                           ReferencesEach(next, nodes, k + 1, since, index, sourcePath)))

\* decorateReferences(root, index, sourcePath)
decorateReferences(st, root, index, sourcePath) ==
    Then(collectTextNodes(st.tree, root),
         LAMBDA nodes : ReferencesEach(st, nodes, 1, Len(st.edits), index, sourcePath))

HasClass(node, class) == class \in node.classes

RECURSIVE RemoveStaleAnchors(_, _, _, _, _)
\* the loop of ensureAnchor over the anchors found when `since` edits had
\* been made: an anchor of another label is removed
RemoveStaleAnchors(st, anchors, k, since, label) ==
    IF k > Len(anchors) THEN st
    ELSE Then(AfterEdits(anchors[k], SubSeq(st.edits, since + 1, Len(st.edits))),
              LAMBDA path :
                  Then(IF NodeAt(st.tree, path).data.label # label
                       THEN [ tree |-> Splice(st.tree, path, << >>),
                              edits |-> Append(st.edits, Replaced(path, 0)) ]
                       ELSE st,
                       LAMBDA next : RemoveStaleAnchors(next, anchors, k + 1, since, label)))

\* the anchor ensureAnchor creates
NewAnchor(label) ==
    [ Element("span", {"crossref-anchor"}, << >>) EXCEPT !.data.label = label, !.id = label ]

\* the second half of ensureAnchor, the stale anchors being removed; the
\* labels are made of [A-Za-z0-9_-] and start with a letter, so cssEscape
\* leaves them as they are
PlaceAnchor(st, host, label, anchor) ==
    IF anchor = NoNode
    THEN [ tree |-> prepend(st.tree, host, NewAnchor(label)),
           edits |-> Append(st.edits, Inserted(Append(host, 1))) ]
    ELSE [ tree |-> SetNode(st.tree, anchor, [NodeAt(st.tree, anchor) EXCEPT !.id = label]),
           edits |-> st.edits ]

\* host.querySelector(`.crossref-anchor[data-label="${label}"]`)
FindAnchor(tree, host, label) ==
    querySelector(tree, host, LAMBDA n : HasClass(n, "crossref-anchor") /\ n.data.label = label)

AnchorsCleaned(st, host, label) ==
    RemoveStaleAnchors(st,
        querySelectorAll(st.tree, host, LAMBDA n : HasClass(n, "crossref-anchor")),
        1, Len(st.edits), label)

\* ensureAnchor(host, label)
ensureAnchor(st, host, label) ==
    Then(AnchorsCleaned(st, host, label),
         LAMBDA cleaned :
             Then(FindAnchor(cleaned.tree, host, label),
                  LAMBDA anchor : PlaceAnchor(cleaned, host, label, anchor)))

\* applyTargetHost(host, label, kind)
applyTargetHost(st, host, label, kind) ==
    Then([ tree |-> SetNode(st.tree, host,
                        [ NodeAt(st.tree, host)
                          EXCEPT !.classes = @ \cup {"crossref-target", KindClass(kind)},
                                 !.data.crossrefTarget = label,
                                 !.data.crossrefKind = kind ]),
           edits |-> st.edits ],
         LAMBDA marked : ensureAnchor(marked, host, label))

\* "figure, div, p, section, blockquote, li"
BlockSelector(node) == node.tag \in {"figure", "div", "p", "section", "blockquote", "li"}

\* "figure, p, div, li"
FigureHostSelector(node) == node.tag \in {"figure", "p", "div", "li"}

\* resolveEquationHost(node)
resolveEquationHost(tree, path) ==
    Then(closest(tree, path, BlockSelector),
         LAMBDA block :
             IF block # NoNode THEN block
             ELSE IF NodeAt(tree, path).tag = "mjx-container" /\ parentElement(tree, path) # NoNode
             THEN parentElement(tree, path)
             ELSE path)

RECURSIVE dedupeElements(_)
\* the first occurrence of every element, in order
dedupeElements(elements) ==
    IF elements = << >> THEN << >>
    ELSE LET front == SubSeq(elements, 1, Len(elements) - 1)
             last == elements[Len(elements)]
         IN  IF \E k \in DOMAIN front : front[k] = last
             THEN dedupeElements(front)
             ELSE Append(dedupeElements(front), last)

\* collectEquationHosts(root)
collectEquationHosts(tree, root) ==
    LET directMath == querySelectorAll(tree, root, LAMBDA n : HasClass(n, "math-block"))
        mjxMath == querySelectorAll(tree, root,
                       LAMBDA n : n.tag = "mjx-container" /\ n.display)
        hosts == directMath \o mjxMath
    IN  dedupeElements([k \in DOMAIN hosts |-> resolveEquationHost(tree, hosts[k])])

\* the badge of a host: the one it has, or a new one appended to it
WithBadge(st, host, tag, class) ==
    Then(querySelector(st.tree, host, LAMBDA n : HasClass(n, class)),
         LAMBDA badge :
             IF badge # NoNode THEN [ st |-> st, badge |-> badge ]
             ELSE [ st |-> [ tree |-> appendChild(st.tree, host, Element(tag, {class}, << >>)),
                             edits |-> st.edits ],
                    badge |-> Append(host, Len(NodeAt(st.tree, host).kids) + 1) ])

\* badge.dataset.label = label; badge.textContent = descriptorDisplay(descriptor)
LabelBadge(with, label, descriptor) ==
    [ tree |-> SetNode(with.st.tree, with.badge,
                   SetTextContent([NodeAt(with.st.tree, with.badge) EXCEPT !.data.label = label],
                                  descriptorDisplay(descriptor))),
      edits |-> with.st.edits ]

\* the body of the loops of decorateEquationTargets and decorateFigureTargets
\* for one host; index.labels.get(label) never fails for a label selected
\* from the index
AttachTarget(st, host, label, kind, tag, class, index) ==
    Then(applyTargetHost(st, host, label, kind),
         LAMBDA hosted :
             Then(WithBadge(hosted, host, tag, class),
                  LAMBDA with : LabelBadge(with, label, GetLabel(index, label))))

RECURSIVE EquationTargetsEach(_, _, _, _, _, _)
EquationTargetsEach(st, hosts, labels, k, since, index) ==
    IF k > Min(Len(labels), Len(hosts)) THEN st
    ELSE Then(AttachTarget(st, AfterEdits(hosts[k], SubSeq(st.edits, since + 1, Len(st.edits))),
                           labels[k], "equation", "span", "crossref-eq-number", index),
              LAMBDA next : EquationTargetsEach(next, hosts, labels, k + 1, since, index))

\* decorateEquationTargets(root, labels, index)
decorateEquationTargets(st, root, labels, index) ==
    IF labels = << >> THEN st
    ELSE Then(collectEquationHosts(st.tree, root),
              LAMBDA hosts : EquationTargetsEach(st, hosts, labels, 1, Len(st.edits), index))

\* image.closest("figure, p, div, li") || image.parentElement
FigureHost(tree, image) ==
    Then(closest(tree, image, FigureHostSelector),
         LAMBDA host : IF host # NoNode THEN host ELSE parentElement(tree, image))

RECURSIVE FigureTargetsEach(_, _, _, _, _, _)
FigureTargetsEach(st, images, labels, k, since, index) ==
    IF k > Min(Len(labels), Len(images)) THEN st
    ELSE Then(FigureHost(st.tree, AfterEdits(images[k],
                                             SubSeq(st.edits, since + 1, Len(st.edits)))),
              LAMBDA host :
                  Then(IF host = NoNode THEN st
                       ELSE AttachTarget(st, host, labels[k], "figure",
                                         "div", "crossref-fig-number", index),
                       LAMBDA next :
                           FigureTargetsEach(next, images, labels, k + 1, since, index)))

\* decorateFigureTargets(root, labels, index)
decorateFigureTargets(st, root, labels, index) ==
    IF labels = << >> THEN st
    ELSE Then(querySelectorAll(st.tree, root, LAMBDA n : n.tag = "img"),
              LAMBDA images : FigureTargetsEach(st, images, labels, 1, Len(st.edits), index))

\* the comparators of selectTargetsForSection (byEnd) and getTheoremDescriptors
ComesBefore(a, b, byEnd) ==
    \/ a.lineStart < b.lineStart
    \/ byEnd /\ a.lineStart = b.lineStart /\ a.lineEnd < b.lineEnd

RECURSIVE SortFrom(_, _, _, _)
\* Array.prototype.sort is stable: the k-th and later descriptors inserted,
\* each behind the sorted ones it does not come before
SortFrom(descriptors, k, sorted, byEnd) ==
    IF k > Len(descriptors) THEN sorted
    ELSE LET d == descriptors[k]
             n == Cardinality({ j \in DOMAIN sorted : ~ComesBefore(d, sorted[j], byEnd) })
         IN  SortFrom(descriptors, k + 1,
                      SubSeq(sorted, 1, n) \o << d >> \o SubSeq(sorted, n + 1, Len(sorted)),
                      byEnd)

\* what context.getSectionInfo(element) returns: null, or the line span
NoSectionInfo == [present |-> FALSE, lineStart |-> 0, lineEnd |-> 0]
SectionInfo(lineStart, lineEnd) ==
    [present |-> TRUE, lineStart |-> lineStart, lineEnd |-> lineEnd]

\* selectTargetsForSection(index, sectionInfo)
selectTargetsForSection(index, sectionInfo) ==
    IF ~sectionInfo.present THEN << >>
    ELSE SelectSeq(SortFrom(index, 1, << >>, TRUE),
                   LAMBDA d : /\ d.lineEnd >= sectionInfo.lineStart - 1
                              /\ d.lineStart <= sectionInfo.lineEnd + 1)

\* sectionTargets.filter(kind).map(label)
LabelsOfKind(descriptors, kind) ==
    LET ofKind == SelectSeq(descriptors, LAMBDA d : d.kind = kind)
    IN  [k \in DOMAIN ofKind |-> ofKind[k].label]

\* getTheoremDescriptors(index)
getTheoremDescriptors(index) ==
    SortFrom(SelectSeq(index, LAMBDA d : d.kind = "theorem"), 1, << >>, FALSE)

NoDescriptor ==
    [ label |-> S_Empty, kind |-> "", prefix |-> S_Empty, number |-> 0, title |-> S_Empty,
      lineStart |-> 0, lineEnd |-> 0 ]

NoTheoremMatch ==
    [found |-> FALSE, descriptor |-> NoDescriptor, isStartSection |-> FALSE,
     isFullyInside |-> FALSE]

\* theoremDescriptors.find(item => item.lineEnd >= start && item.lineStart <= end)
OverlappingTheorems(index, sectionInfo) ==
    SelectSeq(getTheoremDescriptors(index),
              LAMBDA d : d.lineEnd >= sectionInfo.lineStart /\ d.lineStart <= sectionInfo.lineEnd)

\* lines 776-802: the match by the line span of the section
SpanMatch(descriptor, sectionInfo, fenceText) ==
    Then(/\ sectionInfo.lineStart <= descriptor.lineStart
         /\ sectionInfo.lineEnd >= descriptor.lineStart,
      LAMBDA isStartSection :
        Then(/\ sectionInfo.lineStart >= descriptor.lineStart
             /\ sectionInfo.lineEnd <= descriptor.lineEnd,
          LAMBDA isFullyInside :
            IF fenceText
            THEN [found |-> TRUE, descriptor |-> descriptor, isStartSection |-> FALSE,
                  isFullyInside |-> TRUE]
            ELSE IF ~isStartSection /\ ~isFullyInside THEN NoTheoremMatch
            ELSE [found |-> TRUE, descriptor |-> descriptor,
                  isStartSection |-> isStartSection, isFullyInside |-> isFullyInside]))

TheoremMatchBySpan(index, sectionInfo, fenceText) ==
    IF ~sectionInfo.present THEN NoTheoremMatch
    ELSE Then(OverlappingTheorems(index, sectionInfo),
              LAMBDA overlapping :
                  IF overlapping = << >> THEN NoTheoremMatch
                  ELSE SpanMatch(overlapping[1], sectionInfo, fenceText))

\* findTheoremMatchForSection(index, sectionInfo, directText)
findTheoremMatchForSection(index, sectionInfo, directText) ==
    IF getTheoremDescriptors(index) = << >> THEN NoTheoremMatch
    ELSE IF THEOREM_START_PATTERN(directText)
    THEN Then(TheoremStartMatch(directText),
              LAMBDA label :
                  IF HasLabel(index, label) /\ GetLabel(index, label).kind = "theorem"
                  THEN [found |-> TRUE, descriptor |-> GetLabel(index, label),
                        isStartSection |-> TRUE, isFullyInside |-> TRUE]
                  ELSE NoTheoremMatch)
    ELSE TheoremMatchBySpan(index, sectionInfo, THEOREM_END_PATTERN(directText))

RECURSIVE RenderParagraphs(_, _, _)
\* MarkdownRenderer.renderMarkdown, the host's renderer, for plain text: every
\* run of non-blank lines becomes a paragraph with one text node
RenderParagraphs(lines, k, open) ==
    IF k > Len(lines)
    THEN IF open = S_Empty THEN << >> ELSE << Element("p", {}, << TextNode(open) >>) >>
    ELSE IF trim(lines[k]) = S_Empty
    THEN (IF open = S_Empty THEN << >> ELSE << Element("p", {}, << TextNode(open) >>) >>)
             \o RenderParagraphs(lines, k + 1, S_Empty)
    ELSE RenderParagraphs(lines, k + 1,
             IF open = S_Empty THEN lines[k] ELSE open \o << C_NL >> \o lines[k])

renderMarkdown(bodyMarkdown) == RenderParagraphs(splitLines(bodyMarkdown), 1, S_Empty)

\* the first k with a heading line at bodyLines[k], or 0 (lines 1013-1021)
FirstHeadingLine(bodyLines) ==
    IF \E k \in DOMAIN bodyLines : HeadingMatch(bodyLines[k]).matched
    THEN CHOOSE k \in DOMAIN bodyLines :
             /\ HeadingMatch(bodyLines[k]).matched
             /\ \A j \in 1..(k - 1) : ~HeadingMatch(bodyLines[j]).matched
    ELSE 0

\* lines.slice(bodyStart, bodyEnd) of createTheoremNodeFromSource
TheoremBodyLines(descriptor, lines) ==
    LET bodyStart == Max(0, descriptor.lineStart + 1)
        bodyEnd == Min(Len(lines), Max(bodyStart, descriptor.lineEnd))
    IN  SubSeq(lines, bodyStart + 1, bodyEnd)

\* the title row and the body of the theorem presentation
TheoremTitleNode(descriptor, heading) ==
    Element("div", {"crossref-theorem-title"},
            << TextNode(IF heading # S_Empty
                        THEN descriptorDisplay(descriptor) \o << C_Dot, C_Space >> \o heading
                        ELSE descriptorDisplay(descriptor)) >>)

TheoremBodyNode(bodyLines) ==
    Then(trim(JoinLines(bodyLines)),
         LAMBDA bodyMarkdown :
             Element("div", {"crossref-theorem-body"},
                     IF bodyMarkdown # S_Empty THEN renderMarkdown(bodyMarkdown) ELSE << >>))

\* paragraph.previousElementSibling: the nearest element child of the parent
\* before the paragraph, NoNode when there is none
previousElementSibling(tree, path) ==
    Then({ j \in 1..(path[Len(path)] - 1) :
             ~IsText(NodeAt(tree, SubSeq(path, 1, Len(path) - 1)).kids[j]) },
         LAMBDA before :
             IF before = {} THEN NoNode
             ELSE Append(SubSeq(path, 1, Len(path) - 1), MaxOf(before)))

\* the tests under which the loops of cleanupOrphanFenceMarkers (fence = TRUE)
\* and of cleanupEmptyParagraphs `continue` and leave the paragraph
KeepsParagraph(tree, path, fence) ==
    IF fence
    THEN \/ querySelector(tree, path,
               LAMBDA n : \/ n.tag \in {"img", "mjx-container"}
                          \/ HasClass(n, "math")
                          \/ HasClass(n, "crossref-theorem")) # NoNode
         \/ ~THEOREM_END_PATTERN(normalizeText(NodeAt(tree, path)))
         \/ Then(previousElementSibling(tree, path),
                 LAMBDA prev : prev = NoNode \/ ~HasClass(NodeAt(tree, prev), "crossref-theorem"))
    ELSE \/ querySelector(tree, path,
               LAMBDA n : \/ n.tag \in {"img", "mjx-container"}
                          \/ HasClass(n, "math")) # NoNode
         \/ trim(textContent(NodeAt(tree, path))) # S_Empty

RECURSIVE RemoveParagraphs(_, _, _, _, _)
\* the loops of cleanupOrphanFenceMarkers (fence = TRUE) and of
\* cleanupEmptyParagraphs over the paragraphs found when `since` edits had
\* been made
RemoveParagraphs(st, paragraphs, k, since, fence) ==
    IF k > Len(paragraphs) THEN st
    ELSE Then(AfterEdits(paragraphs[k], SubSeq(st.edits, since + 1, Len(st.edits))),
              LAMBDA path :
                  Then(IF path = NoNode \/ KeepsParagraph(st.tree, path, fence) THEN st
                       ELSE [ tree |-> Splice(st.tree, path, << >>),
                              edits |-> Append(st.edits, Replaced(path, 0)) ],
                       LAMBDA next : RemoveParagraphs(next, paragraphs, k + 1, since, fence)))

\* cleanupOrphanFenceMarkers(root)
cleanupOrphanFenceMarkers(st, root) ==
    Then(querySelectorAll(st.tree, root, LAMBDA n : n.tag = "p"),
         LAMBDA paragraphs : RemoveParagraphs(st, paragraphs, 1, Len(st.edits), TRUE))

\* cleanupEmptyParagraphs(root)
cleanupEmptyParagraphs(st, root) ==
    Then(querySelectorAll(st.tree, root, LAMBDA n : n.tag = "p"),
         LAMBDA paragraphs : RemoveParagraphs(st, paragraphs, 1, Len(st.edits), FALSE))

\* lines 1012-1020: the heading of the title row, the first heading line of
\* the body when it has one
TheoremHeading(descriptor, bodyLines) ==
    Then(FirstHeadingLine(bodyLines),
         LAMBDA h : IF h = 0 THEN descriptor.title ELSE HeadingMatch(bodyLines[h]).title)

\* bodyLines.splice(i, 1) on the first heading line
SpliceHeading(bodyLines) ==
    Then(FirstHeadingLine(bodyLines),
         LAMBDA h : IF h = 0 THEN bodyLines
                    ELSE SubSeq(bodyLines, 1, h - 1) \o SubSeq(bodyLines, h + 1, Len(bodyLines)))

\* lines 1023-1043: the theorem element with its title row and the rendered
\* body, label tokens stripped, references decorated
TheoremNodeOf(descriptor, heading, bodyLines, sourcePath, index) ==
    Then(applyTargetHost(
             [ tree |-> Element("div", {"crossref-theorem",
                                        TheoremPrefixClass(descriptor.prefix)}, << >>),
               edits |-> << >> ],
             << >>, descriptor.label, "theorem"),
      LAMBDA hosted :
        Then(appendChild(hosted.tree, << >>, TheoremTitleNode(descriptor, heading)),
          LAMBDA titled :
            Then(appendChild(titled, << >>, TheoremBodyNode(bodyLines)),
              LAMBDA built :
                Then(stripLabelTokens(built, << >>),
                  LAMBDA stripped :
                    Then(decorateReferences([tree |-> stripped, edits |-> << >>],
                                            << >>, index, sourcePath),
                      LAMBDA referenced :
                        cleanupEmptyParagraphs(referenced, << >>).tree)))))

\* createTheoremNodeFromSource(descriptor, sourcePath, source, index): the
\* theorem element, built as a tree of its own
createTheoremNodeFromSource(descriptor, sourcePath, source, index) ==
    Then(TheoremBodyLines(descriptor, splitLines(source)),
         LAMBDA bodyLines :
             TheoremNodeOf(descriptor, TheoremHeading(descriptor, bodyLines),
                           SpliceHeading(bodyLines), sourcePath, index))

\* renderTheoremSection(element, theoremMatch, sourcePath, source, index)
renderTheoremSection(st, element, theoremMatch, sourcePath, source, index) ==
    IF theoremMatch.isStartSection
    THEN Then(createTheoremNodeFromSource(theoremMatch.descriptor, sourcePath, source, index),
              LAMBDA theoremNode :
                  [ tree |-> replaceChildren(st.tree, element, << theoremNode >>),
                    edits |-> Append(st.edits, KidsReplaced(element)) ])
    ELSE IF theoremMatch.isFullyInside /\ NodeAt(st.tree, element).kids # << >>
    THEN [ tree |-> replaceChildren(st.tree, element, << >>),
           edits |-> Append(st.edits, KidsReplaced(element)) ]
    ELSE st

\* lines 861-869: the line span is recorded on the element
MarkLineSpan(tree, element, sectionInfo) ==
    IF sectionInfo.present
    THEN SetNode(tree, element,
             [ NodeAt(tree, element)
               EXCEPT !.data.crossrefLineStart = ToDecimal(sectionInfo.lineStart),
                      !.data.crossrefLineEnd = ToDecimal(sectionInfo.lineEnd) ])
    ELSE tree

\* lines 891-904 of processSection: targets, label tokens, references, cleanup
DecoratePlainSection(st, element, sectionInfo, index, sourcePath) ==
    Then(selectTargetsForSection(index, sectionInfo),
      LAMBDA sectionTargets :
        Then(decorateEquationTargets(st, element,
                 LabelsOfKind(sectionTargets, "equation"), index),
          LAMBDA withEquations :
            Then(decorateFigureTargets(withEquations, element,
                     LabelsOfKind(sectionTargets, "figure"), index),
              LAMBDA withFigures :
                Then([ tree |-> stripLabelTokens(withFigures.tree, element),
                       edits |-> withFigures.edits ],
                  LAMBDA stripped :
                    Then(decorateReferences(stripped, element, index, sourcePath),
                      LAMBDA referenced :
                        Then(cleanupOrphanFenceMarkers(referenced, element),
                          LAMBDA cleaned : cleanupEmptyParagraphs(cleaned, element)))))))

\* processSection(element, context) from line 859 on, the index being built:
\* [tree, edits]
DecorateSection(tree, element, sectionInfo, source, index, sourcePath) ==
    Then([tree |-> MarkLineSpan(tree, element, sectionInfo), edits |-> << >>],
      LAMBDA st :
        Then(findTheoremMatchForSection(index, sectionInfo,
                                        normalizeText(NodeAt(st.tree, element))),
          LAMBDA theoremMatch :
            IF theoremMatch.found
            THEN renderTheoremSection(st, element, theoremMatch, sourcePath, source, index)
            ELSE DecoratePlainSection(st, element, sectionInfo, index, sourcePath)))

(***************************************************************************)
(* Clicks on references and the resolution of a label to its target.  The  *)
(* page is the tree of the document: #document > body > the panes          *)
(* (.workspace-leaf-content > .view-content > .markdown-preview-view >     *)
(* .markdown-preview-sizer > the sections).                                *)
(***************************************************************************)
Document == << >>
Body == << 1 >>

\* activeView.contentEl, the view of pane `leaf` being the active one
ContentEl(leaf) == << 1, leaf, 1 >>

\* [data-crossref-target]
HasTargetData(node) == node.data.crossrefTarget # S_Empty

\* event.target.closest("a.crossref-ref")
ClickedLink(tree, target) ==
    closest(tree, target, LAMBDA n : n.tag = "a" /\ HasClass(n, "crossref-ref"))

\* (link.getAttribute("href") || "").replace(/^#/, "")
HrefLabel(href) == IF href # S_Empty /\ href[1] = C_Hash THEN Tail(href) ELSE href

\* decodeURIComponent(rawLabel), for a string without %: labels are made of
\* [A-Za-z0-9_-], and so are the hrefs the plugin writes
decodeURIComponent(rawLabel) == rawLabel

\* mutant: a missing marker is taken for a link and gives its label
ClickedLabel_anyMarker(tree, target) ==
    Then(closest(tree, target, LAMBDA n : HasClass(n, "crossref-ref")),
         LAMBDA link :
             IF link = NoNode THEN S_Empty
             ELSE IF NodeAt(tree, link).data.crossrefLabel # S_Empty
             THEN decodeURIComponent(NodeAt(tree, link).data.crossrefLabel)
             ELSE IF NodeAt(tree, link).data.crossrefMissing # S_Empty
             THEN decodeURIComponent(NodeAt(tree, link).data.crossrefMissing)
             ELSE decodeURIComponent(HrefLabel(NodeAt(tree, link).href)))

\* lines 1290-1299 of handleReferenceClick: the label of the clicked link,
\* "" when the handler returns before resolving anything
ClickedLabel(tree, target) ==
    Then(ClickedLink(tree, target),
         LAMBDA link :
             IF link = NoNode THEN S_Empty
             ELSE IF NodeAt(tree, link).data.crossrefLabel # S_Empty
             THEN decodeURIComponent(NodeAt(tree, link).data.crossrefLabel)
             ELSE decodeURIComponent(HrefLabel(NodeAt(tree, link).href)))

\* collectReferenceSearchRoots(originLink); originLink is NoNode when the
\* link has left the document, and then has no ancestor outside its section
collectReferenceSearchRoots(tree, originLink, activeLeaf) ==
    LET leafContent == closest(tree, originLink,
                           LAMBDA n : HasClass(n, "workspace-leaf-content"))
        previewRoot == closest(tree, originLink,
                           LAMBDA n : n.classes \cap {"markdown-preview-sizer",
                                                      "markdown-preview-view",
                                                      "markdown-rendered"} # {})
        candidates == << leafContent, previewRoot, ContentEl(activeLeaf), Document >>
    IN  dedupeElements(SelectSeq(candidates, LAMBDA r : r # NoNode))

\* findDirectTargetInRoot(root, label)
findDirectTargetInRoot(tree, root, label) ==
    Then(querySelector(tree, root, LAMBDA n : ~IsText(n) /\ n.id = label),
         LAMBDA byId :
             IF byId # NoNode THEN byId
             ELSE querySelector(tree, root,
                      LAMBDA n : HasTargetData(n) /\ n.data.crossrefTarget = label))

\* badge.closest("[data-crossref-target]") || badge.parentElement
TargetAround(tree, path) ==
    Then(closest(tree, path, HasTargetData),
         LAMBDA marked : IF marked # NoNode THEN marked ELSE parentElement(tree, path))

\* findBadgeTargetInRoot(root, label)
findBadgeTargetInRoot(tree, root, label) ==
    Then(querySelector(tree, root,
             LAMBDA n : HasClass(n, "crossref-eq-number") /\ n.data.label = label),
      LAMBDA equationBadge :
        IF equationBadge # NoNode THEN TargetAround(tree, equationBadge)
        ELSE Then(querySelector(tree, root,
                      LAMBDA n : HasClass(n, "crossref-fig-number") /\ n.data.label = label),
               LAMBDA figureBadge :
                 IF figureBadge # NoNode THEN TargetAround(tree, figureBadge) ELSE NoNode))

\* the selector of findTargetBySectionRange for the kind of a descriptor
KindHostSelector(kind, node) ==
    CASE kind = "equation" ->
             \/ node.data.crossrefKind = "equation"
             \/ node.classes \cap {"crossref-equation", "math-block"} # {}
             \/ node.tag = "mjx-container" /\ node.display
      [] kind = "figure" ->
             \/ node.data.crossrefKind = "figure"
             \/ HasClass(node, "crossref-figure")
             \/ node.tag \in {"figure", "img"}
      [] OTHER ->
             \/ node.data.crossrefKind = "theorem"
             \/ HasClass(node, "crossref-theorem")

\* Number(section.dataset.crossrefLineStart), of a string of digits
LineNumber(s) == FromDecimal(s, Len(s))

\* findTargetBySectionRange(root, descriptor): the first section that
\* overlaps the descriptor decides
findTargetBySectionRange(tree, root, descriptor) ==
    Then(querySelectorAll(tree, root,
             LAMBDA n : /\ n.data.crossrefLineStart # S_Empty
                        /\ n.data.crossrefLineEnd # S_Empty
                        /\ ~(\/ LineNumber(n.data.crossrefLineEnd) < descriptor.lineStart
                             \/ LineNumber(n.data.crossrefLineStart) > descriptor.lineEnd)),
      LAMBDA sections :
        IF sections = << >> THEN NoNode
        ELSE Then(querySelector(tree, sections[1],
                      LAMBDA n : ~IsText(n) /\ KindHostSelector(descriptor.kind, n)),
               LAMBDA host :
                 IF host = NoNode THEN sections[1]
                 ELSE Then(closest(tree, host, HasTargetData),
                           LAMBDA marked : IF marked # NoNode THEN marked ELSE host)))

\* the first root, in list order, in which Find finds something
FirstHit(roots, Find(_)) ==
    Then(SelectSeq(roots, LAMBDA r : Find(r) # NoNode),
         LAMBDA hits : IF hits = << >> THEN NoNode ELSE Find(hits[1]))

NoTarget == [target |-> NoNode, via |-> "none"]

\* lines 1465-1480 of findTargetElement: the match by line span, for the
\* cache entry of the active file
FindBySpan(tree, roots, cache, sourcePath, label) ==
    IF sourcePath \notin DOMAIN cache \/ ~HasLabel(cache[sourcePath].index, label)
    THEN NoTarget
    ELSE Then(FirstHit(roots,
                  LAMBDA r : findTargetBySectionRange(tree, r,
                                 GetLabel(cache[sourcePath].index, label))),
              LAMBDA byRange :
                  IF byRange # NoNode THEN [target |-> byRange, via |-> "span"] ELSE NoTarget)

\* mutant: the badges are tried before the direct match
findTargetElement_badgeFirst(tree, roots, cache, sourcePath, label) ==
    Then(FirstHit(roots, LAMBDA r : findBadgeTargetInRoot(tree, r, label)),
      LAMBDA badgeTarget :
        IF badgeTarget # NoNode THEN [target |-> badgeTarget, via |-> "badge"]
        ELSE Then(FirstHit(roots, LAMBDA r : findDirectTargetInRoot(tree, r, label)),
               LAMBDA direct :
                 IF direct # NoNode THEN [target |-> direct, via |-> "direct"]
                 ELSE FindBySpan(tree, roots, cache, sourcePath, label)))

\* findTargetElement(label, originLink), the roots being collected: the
\* target and the strategy that found it
findTargetElement(tree, roots, cache, sourcePath, label) ==
    Then(FirstHit(roots, LAMBDA r : findDirectTargetInRoot(tree, r, label)),
      LAMBDA direct :
        IF direct # NoNode THEN [target |-> direct, via |-> "direct"]
        ELSE Then(FirstHit(roots, LAMBDA r : findBadgeTargetInRoot(tree, r, label)),
               LAMBDA badgeTarget :
                 IF badgeTarget # NoNode THEN [target |-> badgeTarget, via |-> "badge"]
                 ELSE FindBySpan(tree, roots, cache, sourcePath, label)))

RECURSIVE RemoveClass(_, _)
\* node.classList.remove(class) for every node of a tree
RemoveClass(tree, class) ==
    [ tree EXCEPT !.classes = @ \ {class},
                  !.kids = [k \in DOMAIN tree.kids |-> RemoveClass(tree.kids[k], class)] ]

\* root.querySelectorAll(selector) and classList.remove for every match: the
\* descendants of the root, the root itself is left alone
RemoveClassUnder(tree, root, class) ==
    SetNode(tree, root,
        [ NodeAt(tree, root)
          EXCEPT !.kids = [k \in DOMAIN @ |-> RemoveClass(@[k], class)] ])

RECURSIVE ClearUnderRoots(_, _, _)
\* clearNativeFlashHighlights(originLink), the roots being collected
ClearUnderRoots(tree, roots, k) ==
    IF k > Len(roots) THEN tree
    ELSE Then(RemoveClassUnder(tree, roots[k], "is-flashing"),
              LAMBDA next : ClearUnderRoots(next, roots, k + 1))

clearNativeFlashHighlights(tree, roots) == ClearUnderRoots(tree, roots, 1)

\* clearDocumentNativeFlashHighlights()
clearDocumentNativeFlashHighlights(tree) == RemoveClassUnder(tree, Document, "is-flashing")

\* node.classList.add(class)
AddClass(tree, path, class) ==
    SetNode(tree, path, [NodeAt(tree, path) EXCEPT !.classes = @ \cup {class}])

\* startNativeFlashSuppression(), on the page; the timer is state
startNativeFlashSuppression(tree) ==
    clearDocumentNativeFlashHighlights(AddClass(tree, Body, "crossref-suppress-native-flash"))

\* target.closest("[data-crossref-target]") || target
FocusHost(tree, target) ==
    Then(closest(tree, target, HasTargetData),
         LAMBDA marked : IF marked # NoNode THEN marked ELSE target)

(***************************************************************************)
(* The documents shown in the preview, and what the host renders of them:  *)
(* for every section its line span (getSectionInfo) and its element.  A    *)
(* run of non-blank lines is one paragraph; display math inside it is a    *)
(* span.math.math-block that holds the typeset mjx-container.              *)
(***************************************************************************)
L_X == <<120>>  \* x
L_Y == <<121>>  \* y
L_SeeEqA == <<83, 101, 101, 32, 64, 101, 113, 45, 97, 32, 97, 110, 100, 32, 64, 101, 113, 45, 120, 46>>  \* See @eq-a and @eq-x.
L_MathOne == <<36, 36, 32, 120, 61, 49, 32, 36, 36>>  \* $$ x=1 $$
L_EqOne == <<123, 35, 101, 113, 45, 111, 110, 101, 125>>  \* {#eq-one}
L_MathTwo == <<36, 36, 32, 121, 61, 50, 32, 36, 36>>  \* $$ y=2 $$
L_QuoteMath == <<62, 32, 36, 36, 32, 121, 61, 50, 32, 36, 36>>  \* > $$ y=2 $$
L_EqTwo == <<123, 35, 101, 113, 45, 116, 119, 111, 125>>  \* {#eq-two}
L_SeeOneTwo == <<83, 101, 101, 32, 64, 101, 113, 45, 111, 110, 101, 32, 97, 110, 100, 32, 64, 101, 113, 45, 116, 119, 111, 32, 97, 110, 100, 32, 64, 101, 113, 45, 109, 105, 115, 115, 105, 110, 103, 46>>  \* See @eq-one and @eq-two and @eq-missing.
L_HeadingSee == <<35, 35, 32, 83, 101, 101, 32, 64, 101, 113, 45, 97>>  \* ## See @eq-a
L_BodyRef == <<98, 111, 100, 121, 32, 64, 116, 104, 109, 45, 97>>  \* body @thm-a
L_InCode == <<105, 110, 32, 96, 64, 102, 105, 103, 45, 97, 96, 32, 120, 64, 102, 105, 103, 45, 97, 32, 64, 102, 105, 103, 45, 97, 64, 102, 105, 103, 45, 98, 32, 64, 102, 105, 103, 45, 97, 46>>  \* in `@fig-a` x@fig-a @fig-a@fig-b @fig-a.
L_SeeEqB == <<83, 101, 101, 32, 64, 101, 113, 45, 98, 46>>  \* See @eq-b.
L_SeeA == <<83, 101, 101, 32, 64, 101, 113, 45, 97, 46>>  \* See @eq-a.

\* the lines of the documents
F_Equation == << L_Math, L_X, L_Math, L_EqA, L_Blank, L_SeeEqA >>
F_FiveLines == << L_MathOne, L_EqOne, L_MathTwo, L_EqTwo, L_SeeOneTwo >>
F_Theorem == << L_OpenThmA, L_HeadingSee, L_BodyRef, L_Close >>
F_Figure == << L_FigA, L_Blank, L_InCode >>
F_TwoEquations ==
    << L_Math, L_X, L_Math, L_EqA, L_Math, L_Y, L_Math, L_EqB, L_Blank, L_SeeEqB >>
F_TwoPanes == << L_Math, L_X, L_Math, L_EqA, L_SeeA >>
F_Mixed == << L_Math, L_X, L_Math, L_EqA, L_FigA, L_Blank, L_SeeA >>
F_Quoted == << L_Math, L_X, L_Math, L_EqA, L_QuoteMath >>

\* what the host makes of display math, of a paragraph and of a heading
MathBlock ==
    Element("span", {"math", "math-block", "is-loaded"},
            << [Element("mjx-container", {"MathJax"}, << >>) EXCEPT !.display = TRUE] >>)
Paragraph(kids) == Element("div", {"el-p"}, << Element("p", {}, kids) >>)
Heading(text) == Element("div", {"el-h2"}, << Element("h2", {}, << TextNode(text) >>) >>)
Rendered(lineStart, lineEnd, element) ==
    [info |-> SectionInfo(lineStart, lineEnd), element |-> element]

\* the text of the lines from..to of a document, as the host puts it in a
\* text node (the line before it ends with a line break)
After(lines, from, to) == << C_NL >> \o JoinLines(SubSeq(lines, from + 1, to + 1))

\* the sections of the documents
R_Equation ==
    << Rendered(0, 3, Paragraph(<< MathBlock, TextNode(After(F_Equation, 3, 3)) >>)),
       Rendered(5, 5, Paragraph(<< TextNode(L_SeeEqA) >>)) >>
R_FiveLines ==
    << Rendered(0, 4, Paragraph(<< MathBlock,
                                   TextNode(After(F_FiveLines, 1, 1) \o << C_NL >>),
                                   MathBlock,
                                   TextNode(After(F_FiveLines, 3, 4)) >>)) >>
R_Theorem ==
    << Rendered(0, 0, Paragraph(<< TextNode(L_OpenThmA) >>)),
       Rendered(1, 1, Heading(HeadingMatch(L_HeadingSee).title)),
       Rendered(2, 3, Paragraph(<< TextNode(JoinLines(<< L_BodyRef, L_Close >>)) >>)) >>
R_Figure ==
    << Rendered(0, 0, Paragraph(<< Element("img", {}, << >>), TextNode(Slice(L_FigA, 7, 15)) >>)),
       Rendered(2, 2, Paragraph(<< TextNode(Slice(L_InCode, 0, 3)),
                                   Element("code", {}, << TextNode(Slice(L_InCode, 4, 10)) >>),
                                   TextNode(Slice(L_InCode, 11, Len(L_InCode))) >>)) >>
R_TwoEquations ==
    << Rendered(0, 7, Paragraph(<< MathBlock,
                                   TextNode(After(F_TwoEquations, 3, 3) \o << C_NL >>),
                                   MathBlock,
                                   TextNode(After(F_TwoEquations, 7, 7)) >>)),
       Rendered(9, 9, Paragraph(<< TextNode(L_SeeEqB) >>)) >>
R_TwoPanes ==
    << Rendered(0, 4, Paragraph(<< MathBlock, TextNode(After(F_TwoPanes, 3, 4)) >>)) >>
R_Mixed ==
    << Rendered(0, 4, Paragraph(<< MathBlock,
                                   TextNode(After(F_Mixed, 3, 3) \o << C_NL >>),
                                   Element("img", {}, << >>),
                                   TextNode(Slice(L_FigA, 7, 15)) >>)),
       Rendered(6, 6, Paragraph(<< TextNode(L_SeeA) >>)) >>
\* a block quote interrupts the paragraph: a fragment of its own
R_Quoted ==
    << Rendered(0, 3, Paragraph(<< MathBlock, TextNode(After(F_Quoted, 3, 3)) >>)),
       Rendered(4, 4, Element("div", {"el-blockquote"},
                         << Element("blockquote", {},
                                << Element("p", {}, << MathBlock >>) >>) >>)) >>

Scenarios ==
    {"equation", "five lines", "theorem", "figure", "two equations", "two panes", "mixed",
     "quoted"}

\* the document of a scenario, its sections and the number of panes showing it
FileLines(name) ==
    CASE name = "equation" -> F_Equation
      [] name = "five lines" -> F_FiveLines
      [] name = "theorem" -> F_Theorem
      [] name = "figure" -> F_Figure
      [] name = "two equations" -> F_TwoEquations
      [] name = "two panes" -> F_TwoPanes
      [] name = "mixed" -> F_Mixed
      [] name = "quoted" -> F_Quoted
      [] OTHER -> << >>
Sections(name) ==
    CASE name = "equation" -> R_Equation
      [] name = "five lines" -> R_FiveLines
      [] name = "theorem" -> R_Theorem
      [] name = "figure" -> R_Figure
      [] name = "two equations" -> R_TwoEquations
      [] name = "two panes" -> R_TwoPanes
      [] name = "mixed" -> R_Mixed
      [] name = "quoted" -> R_Quoted
      [] OTHER -> << >>
Panes(name) == IF name = "two panes" THEN 2 ELSE 1

\* vault.cachedRead(file): the text of the document
FileSource(name) == JoinLines(FileLines(name))

\* fastHash(source) and parseCrossrefIndex(source) of the documents, each
\* evaluated once
H_Equation == fastHash(JoinLines(F_Equation))
H_FiveLines == fastHash(JoinLines(F_FiveLines))
H_Theorem == fastHash(JoinLines(F_Theorem))
H_Figure == fastHash(JoinLines(F_Figure))
H_TwoEquations == fastHash(JoinLines(F_TwoEquations))
H_TwoPanes == fastHash(JoinLines(F_TwoPanes))
H_Mixed == fastHash(JoinLines(F_Mixed))
H_Quoted == fastHash(JoinLines(F_Quoted))
I_Equation == parseCrossrefIndex(JoinLines(F_Equation))
I_FiveLines == parseCrossrefIndex(JoinLines(F_FiveLines))
I_Theorem == parseCrossrefIndex(JoinLines(F_Theorem))
I_Figure == parseCrossrefIndex(JoinLines(F_Figure))
I_TwoEquations == parseCrossrefIndex(JoinLines(F_TwoEquations))
I_TwoPanes == parseCrossrefIndex(JoinLines(F_TwoPanes))
I_Mixed == parseCrossrefIndex(JoinLines(F_Mixed))
I_Quoted == parseCrossrefIndex(JoinLines(F_Quoted))
FileHash(name) ==
    CASE name = "equation" -> H_Equation
      [] name = "five lines" -> H_FiveLines
      [] name = "theorem" -> H_Theorem
      [] name = "figure" -> H_Figure
      [] name = "two equations" -> H_TwoEquations
      [] name = "two panes" -> H_TwoPanes
      [] name = "mixed" -> H_Mixed
      [] name = "quoted" -> H_Quoted
      [] OTHER -> fastHash(S_Empty)
FileIndex(name) ==
    CASE name = "equation" -> I_Equation
      [] name = "five lines" -> I_FiveLines
      [] name = "theorem" -> I_Theorem
      [] name = "figure" -> I_Figure
      [] name = "two equations" -> I_TwoEquations
      [] name = "two panes" -> I_TwoPanes
      [] name = "mixed" -> I_Mixed
      [] name = "quoted" -> I_Quoted
      [] OTHER -> << >>

\* the element the host keeps in place of a section it has not rendered
Unrendered == Element("div", {}, << >>)

\* a pane that shows the document, none of its sections rendered
Pane(name) ==
    Element("div", {"workspace-leaf-content"},
        << Element("div", {"view-content"},
               << Element("div", {"markdown-preview-view", "markdown-rendered"},
                      << Element("div", {"markdown-preview-sizer"},
                             [k \in DOMAIN Sections(name) |-> Unrendered]) >>) >>) >>)

\* the page of a scenario when the document has been opened
PageOf(name) ==
    Element("#document", {}, << Element("body", {}, [l \in 1..Panes(name) |-> Pane(name)]) >>)

SectionPath(leaf, k) == << 1, leaf, 1, 1, 1, k >>

\* isSourceRenderElement(element), the active view being in `viewMode`
isSourceRenderElement(tree, element, viewMode) ==
    \/ closest(tree, element,
               LAMBDA n : n.classes \cap {"cm-editor", "cm-contentContainer",
                                          "markdown-source-view"} # {}) # NoNode
    \/ viewMode # "preview"

(***************************************************************************)
(* State.                                                                  *)
(***************************************************************************)
VARIABLES
    doc,        \* the editor buffer: the lines of the document
    phase,      \* "idle" | "equation" | "figure" | "theorem" | "done"
    cursor,     \* the loop variable i (line scans) or lastIndex (figure scan)
    scan,       \* labels and counters of a running parseCrossrefIndex
    index       \* the index the last build returned (its labels, in order)

parseVars == <<doc, phase, cursor, scan, index>>

VARIABLES
    indexCache, \* this.indexCache: path -> [hash, index], a function on the paths it has
    got         \* the last getCachedIndex call and what it returned

cacheVars == <<indexCache, got>>

VARIABLES
    fragment,   \* a rendered fragment as the host made it: a tree
    typed,      \* how many pieces of content the fragment was made of
    refIndex,   \* the index its references are looked up in
    decorated   \* the fragment after decorateReferences, once it has run

refVars == <<fragment, typed, refIndex, decorated>>

VARIABLES
    scenario,   \* which document the panes show
    page,       \* the document tree of the window
    passes,     \* section -> the runs of processSection on its element
    mode,       \* getMode() of the active view: "preview" | "source"
    active,     \* the pane of the active view
    click,      \* the last click on the page and what the handler did of it
    timers,     \* the pending flash timers: the elements to unflash, oldest first
    suppressTimer   \* the pending timeouts set by startNativeFlashSuppression

viewVars == <<scenario, page, passes, mode, active, click, timers, suppressTimer>>

vars == <<parseVars, cacheVars, refVars, viewVars>>

\* what the steps of one component leave alone
ParseFrame == UNCHANGED <<cacheVars, refVars, viewVars>>
CacheFrame == UNCHANGED <<parseVars, refVars, viewVars>>
RefFrame == UNCHANGED <<parseVars, cacheVars, viewVars>>
ViewFrame == UNCHANGED <<parseVars, refVars, got>>

ParseIdle ==
    /\ doc = << S_Empty >>
    /\ phase = "idle"
    /\ cursor = 0
    /\ scan = EmptyScan
    /\ index = << >>

\* no getCachedIndex call has been observed
NoGet == [called |-> FALSE, path |-> "", source |-> S_Empty, index |-> << >>, outcome |-> ""]

CacheIdle ==
    /\ indexCache = << >>
    /\ got = NoGet

\* decorateReferences has not run
NotDecorated == [done |-> FALSE, tree |-> Element("div", {}, << >>)]

RefIdle ==
    /\ fragment = Element("div", {}, << >>)
    /\ typed = 0
    /\ refIndex = << >>
    /\ decorated = NotDecorated

\* no click has been handled
NoClick ==
    [ serial |-> 0, phase |-> "idle", target |-> NoNode, missing |-> FALSE, label |-> S_Empty,
      resolutions |-> 0, requests |-> 0, line |-> 0, retries |-> 0, found |-> NoNode,
      via |-> "none", focused |-> NoNode, returned |-> "none", rerendered |-> FALSE,
      loaded |-> TRUE, roots |-> << >> ]

ViewIdle ==
    /\ scenario = "none"
    /\ page = Element("#document", {}, << >>)
    /\ passes = << >>
    /\ mode = "preview"
    /\ active = 1
    /\ click = NoClick
    /\ timers = << >>
    /\ suppressTimer = 0

(***************************************************************************)
(* Specification of the Builder: type a document, build its index.         *)
(***************************************************************************)
ParseInit ==
    /\ CacheIdle
    /\ ViewIdle
    /\ RefIdle
    /\ \E l \in AllLines : doc = << l >>
    /\ phase = "idle"
    /\ cursor = 0
    /\ scan = EmptyScan
    /\ index = << >>

TypeLine(l) ==
    /\ InputDoc(Append(doc, l))
    /\ doc' = Append(doc, l)
    /\ phase' = "idle"
    /\ cursor' = 0
    /\ scan' = EmptyScan
    /\ index' = << >>
    /\ ParseFrame

Build ==
    /\ phase = "idle"
    /\ phase' = "done"
    /\ index' = parseCrossrefIndex(JoinLines(doc))
    /\ UNCHANGED <<doc, cursor, scan>>
    /\ ParseFrame

ParseNext ==
    \/ \E l \in AllLines : TypeLine(l)
    \/ Build

(***************************************************************************)
(* Specification of the Builder's scan, one loop iteration per step.       *)
(***************************************************************************)
ScanInit ==
    /\ CacheIdle
    /\ ViewIdle
    /\ RefIdle
    /\ \E l \in ScanLines : doc = << l >>
    /\ phase = "idle"
    /\ cursor = 0
    /\ scan = EmptyScan
    /\ index = << >>

ScanTypeLine(l) ==
    /\ phase = "idle"
    /\ LinesIn(Append(doc, l), ScanLines, MaxScanLines)
    /\ doc' = Append(doc, l)
    /\ UNCHANGED <<phase, cursor, scan, index>>
    /\ ParseFrame

StartScan ==
    /\ phase = "idle"
    /\ phase' = "equation"
    /\ cursor' = 0
    /\ scan' = EmptyScan
    /\ UNCHANGED <<doc, index>>
    /\ ParseFrame

EquationStep ==
    /\ phase = "equation"
    /\ LET source == JoinLines(doc)
           lines == splitLines(source)
       IN  IF cursor >= Len(lines)
           THEN /\ phase' = "figure"
                /\ cursor' = 0
                /\ scan' = scan
           ELSE LET it == EquationIter(source, buildLineOffsets(source), lines, cursor, scan)
                IN  /\ phase' = phase
                    /\ cursor' = it.i + 1
                    /\ scan' = it.st
    /\ UNCHANGED <<doc, index>>
    /\ ParseFrame

FigureStep ==
    /\ phase = "figure"
    /\ LET source == JoinLines(doc)
           match == FigureExec(source, cursor)
       IN  IF match.index < 0
           THEN /\ phase' = "theorem"
                /\ cursor' = 0
                /\ scan' = scan
           ELSE /\ phase' = phase
                /\ cursor' = match.end
                /\ scan' = addLabel(scan, buildLineOffsets(source), match.label, "figure",
                                    match.index, match.end, S_Empty)
    /\ UNCHANGED <<doc, index>>
    /\ ParseFrame

TheoremStep ==
    /\ phase = "theorem"
    /\ LET source == JoinLines(doc)
           lines == splitLines(source)
       IN  IF cursor >= Len(lines)
           THEN /\ phase' = "done"
                /\ index' = scan.labels
                /\ UNCHANGED <<cursor, scan>>
           ELSE LET it == TheoremIter(source, buildLineOffsets(source), lines, cursor, scan)
                IN  /\ cursor' = it.i + 1
                    /\ scan' = it.st
                    /\ UNCHANGED <<phase, index>>
    /\ UNCHANGED doc
    /\ ParseFrame

ScanNext ==
    \/ \E l \in ScanLines : ScanTypeLine(l)
    \/ StartScan
    \/ EquationStep
    \/ FigureStep
    \/ TheoremStep

(***************************************************************************)
(* The Builder called again and again: on the text it has just indexed and *)
(* on other texts, one loop iteration per step.                            *)
(***************************************************************************)
RebuildLines == {L_Math, L_EqA, L_FigA, L_OpenThmA, L_Close}

MaxRebuildLines == 3

\* mutant: the counters of the call before are kept
FreshScan_countersKept(previous) == [previous EXCEPT !.labels = << >>]

\* lines 174-177: labels and the counters are locals of the call, created
\* anew; nothing of the call before is seen
FreshScan(previous) == EmptyScan

RebuildInit ==
    /\ CacheIdle
    /\ ViewIdle
    /\ RefIdle
    /\ \E l \in RebuildLines : doc = << l >>
    /\ phase = "idle"
    /\ cursor = 0
    /\ scan = EmptyScan
    /\ index = << >>

\* a line is added to a text that has not been indexed yet
RebuildTypeLine(l) ==
    /\ phase = "idle"
    /\ LinesIn(Append(doc, l), RebuildLines, MaxRebuildLines)
    /\ doc' = Append(doc, l)
    /\ UNCHANGED <<phase, cursor, scan, index>>
    /\ ParseFrame

\* parseCrossrefIndex is called: on a new text, or again on the text of the
\* call before
CallBuild ==
    /\ phase \in {"idle", "done"}
    /\ phase' = "equation"
    /\ cursor' = 0
    /\ scan' = FreshScan(scan)
    /\ UNCHANGED <<doc, index>>
    /\ ParseFrame

\* the text is replaced by another one; what the last call returned stays
\* with its caller
Retype(l) ==
    /\ phase = "done"
    /\ doc' = << l >>
    /\ phase' = "idle"
    /\ UNCHANGED <<cursor, scan, index>>
    /\ ParseFrame

RebuildNext ==
    \/ \E l \in RebuildLines : RebuildTypeLine(l)
    \/ CallBuild
    \/ EquationStep
    \/ FigureStep
    \/ TheoremStep
    \/ \E l \in RebuildLines : Retype(l)

(***************************************************************************)
(* The index cache: getCachedIndex and the host's notifications.           *)
(***************************************************************************)
Paths == {"a.md", "b.md", "c.md"}

D_EqA  == << L_Math, L_Text, L_Math, L_EqA >>
D_EqB  == << L_Math, L_Text, L_Math, L_EqB >>
D_Thm  == << L_OpenThmA, L_Heading, L_Text, L_Close >>
D_Text == << L_Text >>
CacheDocs == {D_EqA, D_EqB, D_Thm, D_Text}

\* mutant: the notification clears the whole cache
CacheDelete_clearsAll(cache, path) == << >>

\* this.indexCache.delete(path)
CacheDelete(cache, path) == [q \in DOMAIN cache \ {path} |-> cache[q]]

\* this.indexCache.set(path, entry)
CacheSet(cache, path, entry) ==
    [q \in DOMAIN cache \cup {path} |-> IF q = path THEN entry ELSE cache[q]]

\* lines 992-1003: the index just built is stored under the path and returned
StoreBuilt(cache, sourcePath, hash, built) ==
    [ index |-> built,
      cache |-> CacheSet(cache, sourcePath, [hash |-> hash, index |-> built]),
      outcome |-> IF sourcePath \in DOMAIN cache THEN "stale" ELSE "miss" ]

\* mutant: a stored entry is returned without comparing fingerprints
getCachedIndex_anyEntry(cache, sourcePath, source) ==
    IF sourcePath \in DOMAIN cache
    THEN [index |-> cache[sourcePath].index, cache |-> cache, outcome |-> "hit"]
    ELSE StoreBuilt(cache, sourcePath, fastHash(source), parseCrossrefIndex(source))

\* lines 986-1003, hash being the hash of the source and built its index: the
\* entry of the path is returned when its hash is that hash
LookupByHash(cache, sourcePath, hash, built) ==
    IF sourcePath \in DOMAIN cache /\ cache[sourcePath].hash = hash
    THEN [index |-> cache[sourcePath].index, cache |-> cache, outcome |-> "hit"]
    ELSE StoreBuilt(cache, sourcePath, hash, built)

\* getCachedIndex(sourcePath, source): the index returned and the cache after
\* the call; outcome tells a hit from a first build ("miss") and from the
\* replacement of an entry with another fingerprint ("stale")
getCachedIndex(cache, sourcePath, source) ==
    LookupByHash(cache, sourcePath, fastHash(source), parseCrossrefIndex(source))

CacheInit ==
    /\ ParseIdle
    /\ ViewIdle
    /\ RefIdle
    /\ indexCache = << >>
    /\ got = NoGet

\* a caller (processSection, getLabelDescriptors) reads the current text of
\* sourcePath and asks for its index
Get(sourcePath, lines) ==
    /\ \E r \in { getCachedIndex(indexCache, sourcePath, JoinLines(lines)) } :
           /\ indexCache' = r.cache
           /\ got' = [called |-> TRUE, path |-> sourcePath, source |-> JoinLines(lines),
                      index |-> r.index, outcome |-> r.outcome]
    /\ CacheFrame

\* vault "modify", vault "delete", workspace "editor-change", "file-open"
OnModify(path) ==
    /\ indexCache' = CacheDelete(indexCache, path)
    /\ got' = NoGet
    /\ CacheFrame

OnDelete(path) ==
    /\ indexCache' = CacheDelete(indexCache, path)
    /\ got' = NoGet
    /\ CacheFrame

OnEditorChange(path) ==
    /\ indexCache' = CacheDelete(indexCache, path)
    /\ got' = NoGet
    /\ CacheFrame

OnFileOpen(path) ==
    /\ indexCache' = CacheDelete(indexCache, path)
    /\ got' = NoGet
    /\ CacheFrame

\* vault "rename": file.path is the new path
OnRename(path, oldPath) ==
    /\ indexCache' = CacheDelete(CacheDelete(indexCache, oldPath), path)
    /\ got' = NoGet
    /\ CacheFrame

CacheNext ==
    \/ \E p \in Paths, d \in CacheDocs : Get(p, d)
    \/ \E p \in Paths : OnModify(p)
    \/ \E p \in Paths : OnDelete(p)
    \/ \E p \in Paths : OnEditorChange(p)
    \/ \E p \in Paths : OnFileOpen(p)
    \/ \E p, q \in Paths : p # q /\ OnRename(p, q)

(***************************************************************************)
(* Reference substitution on its own: the host makes a fragment out of     *)
(* plain text and of elements that hold text, decorateReferences runs on   *)
(* it with the index of a document that declares eq-a, fig-a, fig-b and    *)
(* thm-a.                                                                   *)
(***************************************************************************)
T_RefEqA   == <<64, 101, 113, 45, 97>>              \* @eq-a
T_RefFigB  == <<64, 102, 105, 103, 45, 98>>         \* @fig-b
T_RefThmA  == <<64, 116, 104, 109, 45, 97>>         \* @thm-a
T_RefFigX  == <<64, 102, 105, 103, 45, 120>>        \* @fig-x
T_Word     == <<120>>                               \* x
T_Space    == <<32>>                                \* a space
T_Glued    == <<120, 64, 101, 113, 45, 97, 32>>     \* x@eq-a and a space

Tokens == {T_RefEqA, T_RefFigB, T_RefThmA, T_RefFigX, T_Word, T_Space, T_Glued}

\* the elements of a fragment that hold text: inline code, a link and inline
\* math of the host, emphasis, and the title row of a theorem presentation
Wrappers == {"code", "a", "math", "em", "title"}

Wrapper(kind, text) ==
    CASE kind = "code" -> Element("code", {}, << TextNode(text) >>)
      [] kind = "a" -> Element("a", {"internal-link"}, << TextNode(text) >>)
      [] kind = "math" -> Element("span", {"math", "math-inline"}, << TextNode(text) >>)
      [] kind = "title" -> Element("div", {"crossref-theorem-title"}, << TextNode(text) >>)
      [] OTHER -> Element("em", {}, << TextNode(text) >>)

MaxPieces == 3

D_Labels == << L_Math, L_Text, L_Math, L_EqA, L_FigA, L_FigB, L_OpenThmA, L_Close >>

RefInit ==
    /\ ParseIdle
    /\ ViewIdle
    /\ CacheIdle
    /\ fragment = Element("div", {}, << >>)
    /\ typed = 0
    /\ refIndex = parseCrossrefIndex(JoinLines(D_Labels))
    /\ decorated = NotDecorated

\* the host renders a piece of text: it continues the text node before it
RenderText(token) ==
    /\ ~decorated.done
    /\ typed < MaxPieces
    /\ fragment' =
           IF fragment.kids # << >> /\ IsText(fragment.kids[Len(fragment.kids)])
           THEN [fragment EXCEPT !.kids[Len(fragment.kids)].text = @ \o token]
           ELSE [fragment EXCEPT !.kids = Append(@, TextNode(token))]
    /\ typed' = typed + 1
    /\ UNCHANGED <<refIndex, decorated>>
    /\ RefFrame

\* the host renders an element that holds the text @eq-a
RenderWrapper(kind) ==
    /\ ~decorated.done
    /\ typed < MaxPieces
    /\ fragment' = [fragment EXCEPT !.kids = Append(@, Wrapper(kind, T_RefEqA))]
    /\ typed' = typed + 1
    /\ UNCHANGED <<refIndex, decorated>>
    /\ RefFrame

\* decorateReferences(root, index, sourcePath) on the fragment
DecorateReferences ==
    /\ ~decorated.done
    /\ decorated' =
           [ done |-> TRUE,
             tree |-> decorateReferences([tree |-> fragment, edits |-> << >>], << >>,
                                         refIndex, "a.md").tree ]
    /\ UNCHANGED <<fragment, typed, refIndex>>
    /\ RefFrame

RefNext ==
    \/ \E token \in Tokens : RenderText(token)
    \/ \E kind \in Wrappers : RenderWrapper(kind)
    \/ DecorateReferences

(***************************************************************************)
(* Label-token stripping on its own: the host makes a fragment out of      *)
(* pieces of text and of elements that hold a token, stripLabelTokens runs *)
(* on it.                                                                  *)
(***************************************************************************)
P_TokOpen  == <<123, 35>>                                            \* {#
P_TokEqA   == <<123, 35, 101, 113, 45, 97, 125>>                     \* {#eq-a}
P_TailEqB  == <<101, 113, 45, 98, 125>>                              \* eq-b}
P_OpenThmA == <<58, 58, 58, 32, 123, 35, 116, 104, 109, 45, 97, 125>> \* ::: {#thm-a}

StripPieces == {P_TokOpen, P_TokEqA, P_TailEqB, P_OpenThmA, T_Word, T_Space}

\* the elements that hold the text {#eq-a}: inline code, inline math, a link
\* and emphasis
StripWrappers == {"code", "math", "a", "em"}

MaxStripPieces == 3

StripInit ==
    /\ ParseIdle
    /\ ViewIdle
    /\ CacheIdle
    /\ fragment = Element("div", {}, << >>)
    /\ typed = 0
    /\ refIndex = << >>
    /\ decorated = NotDecorated

\* the host renders a piece of text: it continues the text node before it
StripRenderText(piece) ==
    /\ ~decorated.done
    /\ typed < MaxStripPieces
    /\ fragment' =
           IF fragment.kids # << >> /\ IsText(fragment.kids[Len(fragment.kids)])
           THEN [fragment EXCEPT !.kids[Len(fragment.kids)].text = @ \o piece]
           ELSE [fragment EXCEPT !.kids = Append(@, TextNode(piece))]
    /\ typed' = typed + 1
    /\ UNCHANGED <<refIndex, decorated>>
    /\ RefFrame

\* the host renders an element that holds the text {#eq-a}
StripRenderWrapper(kind) ==
    /\ ~decorated.done
    /\ typed < MaxStripPieces
    /\ fragment' = [fragment EXCEPT !.kids = Append(@, Wrapper(kind, P_TokEqA))]
    /\ typed' = typed + 1
    /\ UNCHANGED <<refIndex, decorated>>
    /\ RefFrame

\* stripLabelTokens(root) on the fragment
StripLabelTokens ==
    /\ ~decorated.done
    /\ decorated' = [ done |-> TRUE, tree |-> stripLabelTokens(fragment, << >>) ]
    /\ UNCHANGED <<fragment, typed, refIndex>>
    /\ RefFrame

StripNext ==
    \/ \E piece \in StripPieces : StripRenderText(piece)
    \/ \E kind \in StripWrappers : StripRenderWrapper(kind)
    \/ StripLabelTokens

(***************************************************************************)
(* The preview: the host renders the sections of the document of a pane    *)
(* and hands each rendered element to processSection.                      *)
(***************************************************************************)
\* getActiveFilePath(), context.sourcePath: every pane shows this file
ActivePath == "a.md"

SectionIds == { s \in {1, 2} \X {1, 2, 3} : s[1] <= Panes(scenario) /\ s[2] <= Len(Sections(scenario)) }

IsRendered(leaf, k) == NodeAt(page, SectionPath(leaf, k)) # Unrendered

MaxPasses == 2

\* the references the plugin holds into the page, after edits of the page
ClickAfter(edits) == [click EXCEPT !.target = AfterEdits(@, edits)]

\* a navigation is under way, and section k of pane `leaf` is the section of
\* the active view around the line it was asked for
AroundClickedLine(leaf, k) ==
    /\ click.phase \in {"opening", "waiting"}
    /\ leaf = active
    /\ Sections(scenario)[k].info.lineStart <= click.line
    /\ click.line <= Sections(scenario)[k].info.lineEnd

\* the document is opened in the panes; the active view is in some mode
SectionInit ==
    /\ ParseIdle
    /\ CacheIdle
    /\ RefIdle
    /\ scenario \in Scenarios
    /\ page = PageOf(scenario)
    /\ passes = [s \in SectionIds |-> 0]
    /\ mode = "preview"
    /\ active = 1
    /\ click = NoClick
    /\ timers = << >>
    /\ suppressTimer = 0

\* the host renders section k of a pane, anew if it was rendered
HostRender(leaf, k) ==
    /\ << leaf, k >> \in SectionIds
    /\ page' = SetNode(page, SectionPath(leaf, k), Sections(scenario)[k].element)
    /\ passes' = [passes EXCEPT ![<< leaf, k >>] = 0]
    /\ click' = [ ClickAfter(<< Replaced(SectionPath(leaf, k), 1) >>)
                   EXCEPT !.rerendered = @ /\ ~AroundClickedLine(leaf, k) ]
    /\ timers' = AllAfterEdits(timers, << Replaced(SectionPath(leaf, k), 1) >>)
    /\ UNCHANGED <<scenario, mode, active, suppressTimer, indexCache>>
    /\ ViewFrame

\* the user switches the active view between reading and editing
SetMode ==
    /\ mode' = IF mode = "preview" THEN "source" ELSE "preview"
    /\ UNCHANGED <<scenario, page, passes, active, click, timers, suppressTimer, indexCache>>
    /\ ViewFrame

\* processSection(element, context) for the element of section k of a pane
RunProcessSection(leaf, k) ==
    /\ click.loaded
    /\ IsRendered(leaf, k)
    /\ IF \/ isSourceRenderElement(page, SectionPath(leaf, k), mode)
          \/ closest(page, SectionPath(leaf, k),
                     LAMBDA n : HasClass(n, "crossref-theorem")) # NoNode
          \/ FileSource(scenario) = S_Empty
       THEN UNCHANGED <<page, passes, click, timers, indexCache>>
       ELSE \E r \in { LookupByHash(indexCache, ActivePath, FileHash(scenario),
                                    FileIndex(scenario)) } :
            \E st \in { DecorateSection(page, SectionPath(leaf, k),
                                        Sections(scenario)[k].info, FileSource(scenario),
                                        r.index, ActivePath) } :
                /\ indexCache' = r.cache
                /\ page' = st.tree
                /\ passes' = [passes EXCEPT ![<< leaf, k >>] = @ + 1]
                /\ click' = [ ClickAfter(st.edits)
                               EXCEPT !.rerendered = @ \/ AroundClickedLine(leaf, k) ]
                /\ timers' = AllAfterEdits(timers, st.edits)
    /\ UNCHANGED <<scenario, mode, active, suppressTimer>>
    /\ ViewFrame

\* the post processor runs on an element the host has just rendered
ProcessSection(leaf, k) ==
    /\ << leaf, k >> \in SectionIds
    /\ passes[<< leaf, k >>] = 0
    /\ RunProcessSection(leaf, k)

\* the post processor runs again on an element it has decorated
ReprocessSection(leaf, k) ==
    /\ << leaf, k >> \in SectionIds
    /\ passes[<< leaf, k >>] \in 1..(MaxPasses - 1)
    /\ RunProcessSection(leaf, k)

SectionNext ==
    \/ \E leaf \in {1, 2}, k \in {1, 2, 3} : HostRender(leaf, k)
    \/ \E leaf \in {1, 2}, k \in {1, 2, 3} : ProcessSection(leaf, k)
    \/ \E leaf \in {1, 2}, k \in {1, 2, 3} : ReprocessSection(leaf, k)
    \/ SetMode

(***************************************************************************)
(* Clicks in the preview.  handleReferenceClick runs up to its first await *)
(* in one step; the continuation of navigateToReferenceLabel runs when     *)
(* openLinkText has resolved and the 90 ms timer has fired.  One click is   *)
(* handled at a time.                                                      *)
(***************************************************************************)
MaxClicks == 2

ClickScenarios == {"equation", "two equations", "two panes", "figure", "mixed"}

\* what a click can land on, in document order: the references (links and
\* missing markers) and the paragraphs
ClickTargets(tree) ==
    SelectSeq(Descendants(tree, Document),
              LAMBDA p : HasClass(NodeAt(tree, p), "crossref-ref") \/ NodeAt(tree, p).tag = "p")

\* no page of the documents has more elements to click on
MaxTargets == 8

\* the section of a pane that holds a line of the document, 0 when none does
SectionOfLine(name, line) ==
    IF \E k \in DOMAIN Sections(name) :
           Sections(name)[k].info.lineStart <= line /\ line <= Sections(name)[k].info.lineEnd
    THEN CHOOSE k \in DOMAIN Sections(name) :
             Sections(name)[k].info.lineStart <= line /\ line <= Sections(name)[k].info.lineEnd
    ELSE 0

\* focusHost.scrollIntoView(...); focusHost.classList.add("crossref-target-flash")
\* and the timer that removes the class: [page, timers, focused]
FocusOn(tree, pending, target) ==
    Then(FocusHost(tree, target),
         LAMBDA focusHost :
             [ page |-> AddClass(tree, focusHost, "crossref-target-flash"),
               timers |-> Append(pending, focusHost),
               focused |-> focusHost ])

\* mutant: the timer of the earlier start is not cancelled
RestartSuppressTimer_notCancelled(pending) == pending + 1

\* lines 1402-1411 of startNativeFlashSuppression: clearTimeout of the
\* pending timer, then setTimeout; the number of pending timeouts after it
RestartSuppressTimer(pending) == (IF pending > 0 THEN pending - 1 ELSE 0) + 1

\* mutant: without a cache entry the descriptor is taken from the current
\* text of the file
CachedDescriptor_fromText(cache, sourcePath, label) ==
    IF HasLabel(FileIndex(scenario), label)
    THEN GetLabel(FileIndex(scenario), label)
    ELSE NoDescriptor

\* lines 1334-1339 of navigateToReferenceLabel: the descriptor of the label
\* in the cache entry of the file, NoDescriptor for null
CachedDescriptor(cache, sourcePath, label) ==
    IF sourcePath \in DOMAIN cache
    THEN IF HasLabel(cache[sourcePath].index, label)
         THEN GetLabel(cache[sourcePath].index, label)
         ELSE NoDescriptor
    ELSE NoDescriptor

\* lines 1303-1325 of handleReferenceClick, the label being read and the
\* roots collected: what the first resolution found decides
ResolveClick(link, onMissing, label, roots, found) ==
    IF found.target # NoNode
    THEN \E f \in { FocusOn(clearNativeFlashHighlights(page, roots), timers, found.target) } :
             /\ page' = f.page
             /\ timers' = f.timers
             /\ suppressTimer' = suppressTimer
             /\ click' = [ NoClick EXCEPT !.serial = click.serial + 1, !.phase = "done",
                                          !.target = link, !.missing = onMissing,
                                          !.label = label, !.roots = roots,
                                          !.resolutions = 1, !.found = found.target,
                                          !.via = found.via, !.focused = f.focused ]
    ELSE \E descriptor \in { CachedDescriptor(indexCache, ActivePath, label) } :
        IF descriptor = NoDescriptor
        THEN /\ click' = [ NoClick EXCEPT !.serial = click.serial + 1, !.phase = "done",
                                          !.target = link, !.missing = onMissing,
                                          !.label = label, !.roots = roots,
                                          !.resolutions = 1, !.returned = "false" ]
             /\ UNCHANGED <<page, timers, suppressTimer>>
        ELSE /\ page' = startNativeFlashSuppression(page)
             /\ suppressTimer' = RestartSuppressTimer(suppressTimer)
             /\ timers' = timers
             /\ click' = [ NoClick EXCEPT !.serial = click.serial + 1, !.phase = "opening",
                                          !.target = link, !.missing = onMissing,
                                          !.label = label, !.roots = roots,
                                          !.resolutions = 1, !.requests = 1,
                                          !.line = descriptor.lineStart ]

\* the element is a missing marker or lies in one
OnMissingMarker(tree, target) ==
    closest(tree, target, LAMBDA n : HasClass(n, "crossref-ref-missing")) # NoNode

\* handleReferenceClick(event) for event.target = target
ClickOn(target) ==
    \E label \in { ClickedLabel(page, target) } :
        IF label = S_Empty
        THEN /\ click' = [ NoClick EXCEPT
                             !.serial = click.serial + 1, !.phase = "done",
                             !.target = target,
                             !.missing = OnMissingMarker(page, target) ]
             /\ UNCHANGED <<page, timers, suppressTimer>>
        ELSE \E roots \in { collectReferenceSearchRoots(page, ClickedLink(page, target),
                                                        active) } :
                 ResolveClick(ClickedLink(page, target), OnMissingMarker(page, target),
                              label, roots,
                              findTargetElement(page, roots, indexCache, ActivePath, label))

\* the document's click listener: handleReferenceClick(event) up to its
\* first await, event.target being the n-th element one can click on
Click(n) ==
    /\ click.loaded
    /\ click.phase \in {"idle", "done"}
    /\ click.serial < MaxClicks
    /\ \E targets \in { ClickTargets(page) } :
           /\ n \in DOMAIN targets
           /\ ClickOn(targets[n])
    /\ UNCHANGED <<scenario, passes, mode, active, indexCache>>
    /\ ViewFrame

\* openLinkText resolves: the host has scrolled the active view to the line
\* and flashes the rendered block of that line
OpenLinkDone ==
    /\ click.phase = "opening"
    /\ click' = [click EXCEPT !.phase = "waiting"]
    /\ page' = IF /\ SectionOfLine(scenario, click.line) # 0
                  /\ IsRendered(active, SectionOfLine(scenario, click.line))
               THEN AddClass(page, SectionPath(active, SectionOfLine(scenario, click.line)),
                             "is-flashing")
               ELSE page
    /\ UNCHANGED <<scenario, passes, mode, active, timers, suppressTimer, indexCache>>
    /\ ViewFrame

\* openLinkText rejects: the catch of navigateToReferenceLabel
OpenLinkFailed ==
    /\ click.phase = "opening"
    /\ click' = [click EXCEPT !.phase = "done", !.returned = "false"]
    /\ UNCHANGED <<scenario, page, passes, mode, active, timers, suppressTimer, indexCache>>
    /\ ViewFrame

\* the retry of navigateToReferenceLabel, the roots being collected and the
\* native flash cleared
Retry(cleared, found) ==
    IF found.target # NoNode
    THEN \E f \in { FocusOn(cleared, timers, found.target) } :
             /\ page' = f.page
             /\ timers' = f.timers
             /\ click' = [ click EXCEPT !.phase = "done", !.resolutions = @ + 1,
                                        !.retries = @ + 1, !.found = found.target,
                                        !.via = found.via, !.focused = f.focused,
                                        !.returned = "true" ]
    ELSE /\ page' = cleared
         /\ timers' = timers
         /\ click' = [ click EXCEPT !.phase = "done", !.resolutions = @ + 1,
                                    !.retries = @ + 1, !.returned = "true" ]

\* the 90 ms have passed: lines 1367-1389 of navigateToReferenceLabel
WaitDone ==
    /\ click.phase = "waiting"
    /\ \E roots \in { collectReferenceSearchRoots(page, click.target, active) } :
       \E cleared \in { clearNativeFlashHighlights(page, roots) } :
           Retry(cleared, findTargetElement(cleared, roots, indexCache, ActivePath, click.label))
    /\ UNCHANGED <<scenario, passes, mode, active, suppressTimer, indexCache>>
    /\ ViewFrame

\* the oldest 1200 ms timer fires: focusHost.classList.remove(...), on the
\* element wherever it is; an element that has left the page is not seen
FlashExpire ==
    /\ timers # << >>
    /\ timers' = Tail(timers)
    /\ page' = IF Head(timers) = NoNode THEN page
               ELSE SetNode(page, Head(timers),
                        [ NodeAt(page, Head(timers))
                          EXCEPT !.classes = @ \ {"crossref-target-flash"} ])
    /\ UNCHANGED <<scenario, passes, mode, active, click, suppressTimer, indexCache>>
    /\ ViewFrame

\* the timer of startNativeFlashSuppression fires
SuppressExpire ==
    /\ suppressTimer > 0
    /\ suppressTimer' = suppressTimer - 1
    /\ page' = SetNode(page, Body,
                   [ NodeAt(page, Body)
                     EXCEPT !.classes = @ \ {"crossref-suppress-native-flash"} ])
    /\ UNCHANGED <<scenario, passes, mode, active, click, timers, indexCache>>
    /\ ViewFrame

\* onunload(): the suppression timer is cleared, the class taken off the
\* body and the cache emptied; the listeners and the post processor that the
\* plugin registered are removed by the host
Unload ==
    /\ click.loaded
    /\ click' = [click EXCEPT !.loaded = FALSE]
    /\ suppressTimer' = 0
    /\ page' = SetNode(page, Body,
                   [ NodeAt(page, Body)
                     EXCEPT !.classes = @ \ {"crossref-suppress-native-flash"} ])
    /\ indexCache' = << >>
    /\ UNCHANGED <<scenario, passes, mode, active, timers>>
    /\ ViewFrame

\* the user makes another pane the active one
Activate(leaf) ==
    /\ leaf \in 1..Panes(scenario)
    /\ leaf # active
    /\ active' = leaf
    /\ UNCHANGED <<scenario, page, passes, mode, click, timers, suppressTimer, indexCache>>
    /\ ViewFrame

\* the document is opened in the panes, nothing is rendered yet
ClickInit ==
    /\ ParseIdle
    /\ CacheIdle
    /\ RefIdle
    /\ scenario \in ClickScenarios
    /\ page = PageOf(scenario)
    /\ passes = [s \in SectionIds |-> 0]
    /\ mode = "preview"
    /\ active = 1
    /\ click = NoClick
    /\ timers = << >>
    /\ suppressTimer = 0

ClickNext ==
    \/ \E leaf \in {1, 2}, k \in {1, 2, 3} : HostRender(leaf, k)
    \/ \E leaf \in {1, 2}, k \in {1, 2, 3} : ProcessSection(leaf, k)
    \/ \E n \in 1..MaxTargets : Click(n)
    \/ OpenLinkDone
    \/ OpenLinkFailed
    \/ WaitDone
    \/ FlashExpire
    \/ SuppressExpire
    \/ Unload
    \/ \E leaf \in {1, 2} : Activate(leaf)
    \/ OnFileOpen(ActivePath)
    \/ OnEditorChange(ActivePath)

(***************************************************************************)
(* Specifications.                                                         *)
(***************************************************************************)
SpecParse == ParseInit /\ [][ParseNext]_vars

SpecScan == ScanInit /\ [][ScanNext]_vars

SpecRebuild == RebuildInit /\ [][RebuildNext]_vars

SpecCache == CacheInit /\ [][CacheNext]_vars

SpecRefs == RefInit /\ [][RefNext]_vars

SpecStrip == StripInit /\ [][StripNext]_vars

SpecSection == SectionInit /\ [][SectionNext]_vars

SpecClick == ClickInit /\ [][ClickNext]_vars

(***************************************************************************)
(* Claims about the Builder.                                               *)
(***************************************************************************)
\* two descriptors are numbered by the same counter
SameScope(a, b) == a.kind = b.kind /\ (a.kind = "theorem" => a.prefix = b.prefix)

\* the 1-based rank of the k-th registered label among those of its scope
RankInScope(labels, k) == Cardinality({ j \in 1..k : SameScope(labels[j], labels[k]) })

\* C2: in every built index, the number of each registered label is its
\* 1-based rank among the registered labels of its numbering scope (all
\* equations, all figures, each theorem-like prefix) in discovery order, and
\* within a scope a label that starts on an earlier line has a smaller number.
C2_NumberIsRankInScope ==
    phase = "done" =>
        /\ \A k \in DOMAIN index : index[k].number = RankInScope(index, k)
        /\ \A j, k \in DOMAIN index :
               (SameScope(index[j], index[k]) /\ index[j].lineStart < index[k].lineStart)
                   => index[j].number < index[k].number

\* C2 witness: thm-a, lem-a, a duplicate thm-a and thm-b were declared; the
\* index numbers thm-a 1, lem-a 1 and thm-b 2.
C2_Witness ==
    /\ phase = "done"
    /\ doc = << L_OpenThmA, L_OpenLemA, L_OpenThmA, L_OpenThmB >>
    /\ Len(index) = 3
    /\ index[2].prefix = S_lem /\ index[2].number = 1
    /\ index[3].prefix = S_thm /\ index[3].number = 2 /\ index[3].lineStart = 3

\* C3: while an index is being built, a descriptor that has been registered
\* keeps every field it was registered with through all later declarations,
\* and a declaration that registers nothing leaves the counters unchanged.
C3_RegisteredDescriptorFrozen ==
    [][ (phase \in {"equation", "figure", "theorem"} /\ phase' # "idle") =>
            /\ \A k \in DOMAIN scan.labels :
                   k \in DOMAIN scan'.labels /\ scan'.labels[k] = scan.labels[k]
            /\ Len(scan'.labels) = Len(scan.labels) =>
                   /\ scan'.equationCounter = scan.equationCounter
                   /\ scan'.figureCounter = scan.figureCounter
                   /\ scan'.theoremCounters = scan.theoremCounters ]_vars

(***************************************************************************)
(* Claims about the index cache.                                           *)
(***************************************************************************)
\* the assumption of C1: distinct texts have distinct fingerprints (no other
\* text has the fingerprint of the text the get was given)
FingerprintsDistinct ==
    \A d \in CacheDocs :
        fastHash(JoinLines(d)) = fastHash(got.source) => JoinLines(d) = got.source

\* C1: under any interleaving of get calls and invalidation notifications,
\* if distinct texts have distinct fingerprints then the index a get returns
\* is the index built from the text it was given, and the entry of that path
\* is then (fingerprint of that text, the returned index).
C1_GetReturnsBuildOfCurrentText ==
    (got.called /\ FingerprintsDistinct) =>
        /\ got.index = parseCrossrefIndex(got.source)
        /\ got.path \in DOMAIN indexCache
        /\ indexCache[got.path] = [hash |-> fastHash(got.source), index |-> got.index]

\* C1 witness: a get found an entry stored for another text of the path and
\* replaced it; the index returned has a label
C1_Witness ==
    /\ got.called
    /\ got.outcome = "stale"
    /\ got.source = JoinLines(D_EqB)
    /\ Len(got.index) = 1

(***************************************************************************)
(* Claims about reference substitution.                                    *)
(***************************************************************************)
\* the regions the statement of the substitution names: code, math, links
InCodeMathOrLink(node) ==
    \/ node.tag \in {"code", "pre", "a", "mjx-container"}
    \/ node.classes \cap {"math", "cm-inline-code", "cm-formatting-code"} # {}

\* those regions, the numbering badges and the title row of a theorem
InCodeMathLinkBadgeOrTitle(node) ==
    \/ InCodeMathOrLink(node)
    \/ node.classes \cap {"crossref-eq-number", "crossref-fig-number",
                          "crossref-theorem-title"} # {}

\* a node made by the substitution: a reference link or a missing marker
IsReferenceNode(node) == "crossref-ref" \in node.classes

\* the node at `path` lies inside an element of the regions: those stated,
\* those stated with badges and titles ("amended"), or the reference nodes
Inside(tree, path, regions) ==
    \E n \in 0..(Len(path) - 1) :
        CASE regions = "stated" -> InCodeMathOrLink(NodeAt(tree, SubSeq(path, 1, n)))
          [] regions = "amended" -> InCodeMathLinkBadgeOrTitle(NodeAt(tree, SubSeq(path, 1, n)))
          [] OTHER -> IsReferenceNode(NodeAt(tree, SubSeq(path, 1, n)))

\* a token @<label> starts at offset i of the text
TokenAt(text, i) == CharAt(text, i) = C_At /\ MatchLabelAt(text, i + 1, PREFIXES) >= 0

\* ... and is not immediately preceded by a character of [A-Za-z0-9_]
FreeTokenAt(text, i) == TokenAt(text, i) /\ ~(i > 0 /\ IsWordChar(CharAt(text, i - 1)))

\* the characters of a text with their role: "ref0" the first character of
\* a token to substitute, "ref" its other characters, "text" all others
Roles(text) ==
    [ k \in 1..Len(text) |->
        [ char |-> text[k],
          role |-> IF FreeTokenAt(text, k - 1) THEN "ref0"
                   ELSE IF \E i \in 0..(k - 2) :
                               FreeTokenAt(text, i) /\ k - 1 < MatchLabelAt(text, i + 1, PREFIXES)
                        THEN "ref"
                        ELSE "text" ] ]

\* the characters of a text, all of one role
AllOfRole(text, role) == [ k \in 1..Len(text) |-> [char |-> text[k], role |-> role] ]

\* the token a reference node stands for: @ and its label
TokenOf(node) ==
    << C_At >> \o (IF "crossref-ref-missing" \in node.classes
                   THEN node.data.crossrefMissing ELSE node.data.crossrefLabel)

RECURSIVE RolesBefore(_, _, _, _)
\* what the statement expects of the text of a fragment, node by node in
\* document order: text in an excluded region is kept, tokens are substituted
RolesBefore(tree, paths, k, regions) ==
    IF k > Len(paths) THEN << >>
    ELSE (IF ~IsText(NodeAt(tree, paths[k])) THEN << >>
          ELSE IF Inside(tree, paths[k], regions)
          THEN AllOfRole(NodeAt(tree, paths[k]).text, "kept")
          ELSE Roles(NodeAt(tree, paths[k]).text))
         \o RolesBefore(tree, paths, k + 1, regions)

RECURSIVE RolesAfter(_, _, _, _)
\* what a decorated fragment shows: a reference node stands for its token,
\* the other text is kept text or plain text
RolesAfter(tree, paths, k, regions) ==
    IF k > Len(paths) THEN << >>
    ELSE (IF Inside(tree, paths[k], "references") THEN << >>
          ELSE IF IsReferenceNode(NodeAt(tree, paths[k]))
          THEN << [char |-> C_At, role |-> "ref0"] >>
                   \o AllOfRole(Tail(TokenOf(NodeAt(tree, paths[k]))), "ref")
          ELSE IF ~IsText(NodeAt(tree, paths[k])) THEN << >>
          ELSE IF Inside(tree, paths[k], regions)
          THEN AllOfRole(NodeAt(tree, paths[k]).text, "kept")
          ELSE AllOfRole(NodeAt(tree, paths[k]).text, "text"))
         \o RolesAfter(tree, paths, k + 1, regions)

\* the badge of a descriptor: (N), Figure N, <CategoryTitle> N
BadgeOf(descriptor) ==
    CASE descriptor.kind = "equation" -> <<40>> \o ToDecimal(descriptor.number) \o <<41>>
      [] descriptor.kind = "figure" -> S_Figure \o <<32>> \o ToDecimal(descriptor.number)
      [] OTHER -> THEOREM_TITLES(descriptor.prefix) \o <<32>> \o ToDecimal(descriptor.number)

\* a reference node is a link that shows the badge of its label and carries
\* the label, the label being in the index, or a missing marker that shows
\* the literal token, the label not being in the index
WellFormedReference(node, labels) ==
    IF "crossref-ref-missing" \in node.classes
    THEN /\ node.tag = "span"
         /\ ~HasLabel(labels, node.data.crossrefMissing)
         /\ node.kids = << TextNode(TokenOf(node)) >>
    ELSE /\ node.tag = "a"
         /\ HasLabel(labels, node.data.crossrefLabel)
         /\ node.kids = << TextNode(BadgeOf(GetLabel(labels, node.data.crossrefLabel))) >>
         /\ node.href = << C_Hash >> \o node.data.crossrefLabel

\* the elements of a tree that the substitution did not make, without their
\* children, in document order
Skeleton(tree) ==
    LET kept == SelectSeq(Descendants(tree, << >>),
                    LAMBDA p : /\ ~IsText(NodeAt(tree, p))
                               /\ ~IsReferenceNode(NodeAt(tree, p)))
    IN  [ k \in DOMAIN kept |-> [NodeAt(tree, kept[k]) EXCEPT !.kids = << >>] ]

\* the substitution did to the fragment what is expected of it, the excluded
\* regions being those named
SubstitutedOutside(regions) ==
    /\ RolesAfter(decorated.tree, Descendants(decorated.tree, << >>), 1, regions)
           = RolesBefore(fragment, Descendants(fragment, << >>), 1, regions)
    /\ Skeleton(decorated.tree) = Skeleton(fragment)
    /\ \A k \in DOMAIN Descendants(decorated.tree, << >>) :
           LET node == NodeAt(decorated.tree, Descendants(decorated.tree, << >>)[k])
           IN  IsReferenceNode(node) => WellFormedReference(node, refIndex)

\* C8 (as amended): for every text run of a fragment outside code, math,
\* links, numbering badges and theorem title rows, reference substitution
\* replaces each token @<label> not immediately preceded by a character of
\* [A-Za-z0-9_] by a link that shows the label's badge and carries the label
\* when the label is in the index, and by a missing marker that shows the
\* literal token when it is not; tokens preceded by a word character and all
\* other characters are kept in order, and text inside the excluded regions
\* is not modified.
C8_TokensOutsideSkippedRegionsSubstituted ==
    decorated.done => SubstitutedOutside("amended")

\* C8 witness: the fragment of the text "x@eq-a @eq-a" and of inline code
\* that holds @eq-a is decorated: the token glued to x is kept, the free
\* token is the link (1), the code is as it was.
C8_Witness ==
    /\ decorated.done
    /\ fragment.kids = << TextNode(T_Glued \o T_RefEqA), Wrapper("code", T_RefEqA) >>
    /\ Len(decorated.tree.kids) = 3
    /\ decorated.tree.kids[1] = TextNode(T_Glued)
    /\ decorated.tree.kids[2].tag = "a"
    /\ decorated.tree.kids[2].data.crossrefLabel = Tail(T_RefEqA)
    /\ decorated.tree.kids[2].kids = << TextNode(<<40, 49, 41>>) >>
    /\ decorated.tree.kids[3] = Wrapper("code", T_RefEqA)

\* C8 as stated: the excluded regions are code, math and existing links only.
C8_TokensOutsideCodeMathLinksSubstituted ==
    decorated.done => SubstitutedOutside("stated")

(***************************************************************************)
(* Claims about the decoration of a section.                               *)
(***************************************************************************)
\* the reference links and missing markers under a node, in document order
ReferencesUnder(tree, root) ==
    querySelectorAll(tree, root, LAMBDA n : HasClass(n, "crossref-ref"))

\* the node is a reference link to `label` that reads `badge`
IsLinkTo(node, label, badge) ==
    /\ node.tag = "a"
    /\ ~HasClass(node, "crossref-ref-missing")
    /\ node.data.crossrefLabel = label
    /\ textContent(node) = badge

\* the node is a missing marker that reads `token`
IsMissingMarker(node, token) ==
    /\ HasClass(node, "crossref-ref-missing")
    /\ textContent(node) = token

\* the index registers `label` as an equation with the number
HasEquation(labels, label, number) ==
    \E k \in DOMAIN labels :
        /\ labels[k].label = label
        /\ labels[k].kind = "equation"
        /\ labels[k].number = number

\* C4: for the five-line input `$$ x=1 $$` / `{#eq-one}` / `$$ y=2 $$` /
\* `{#eq-two}` / `See @eq-one and @eq-two and @eq-missing.` the built index
\* has the equations eq-one numbered 1 and eq-two numbered 2, the reference
\* to eq-one reads (1), the reference to eq-two reads (2), and @eq-missing
\* keeps its text and is flagged missing.
C4_FiveLineExampleAsStated ==
    (scenario = "five lines" /\ passes[<< 1, 1 >>] = 1) =>
        /\ ActivePath \in DOMAIN indexCache
        /\ HasEquation(indexCache[ActivePath].index, Slice(L_EqOne, 2, 8), 1)
        /\ HasEquation(indexCache[ActivePath].index, Slice(L_EqTwo, 2, 8), 2)
        /\ \E refs \in { ReferencesUnder(page, SectionPath(1, 1)) } :
               /\ Len(refs) = 3
               /\ IsLinkTo(NodeAt(page, refs[1]), Slice(L_EqOne, 2, 8),
                           << C_LParen, 49, C_RParen >>)
               /\ IsLinkTo(NodeAt(page, refs[2]), Slice(L_EqTwo, 2, 8),
                           << C_LParen, 50, C_RParen >>)
               /\ IsMissingMarker(NodeAt(page, refs[3]), Slice(L_SeeOneTwo, 28, 39))

\* C7: a run of processSection on an element that it has already decorated
\* (same line span, same index, same source) leaves the page as it was: no
\* link, missing marker, badge or anchor is added, nested or duplicated.
C7_SecondRunChangesNothing ==
    [][ \A s \in SectionIds :
            (passes[s] >= 1 /\ passes'[s] = passes[s] + 1) => page' = page ]_vars

(***************************************************************************)
(* Claims about clicks.                                                    *)
(***************************************************************************)
\* C5: a navigation returns true exactly when, after the request and the
\* one retry, a target was found and the focus effect was applied to it; it
\* returns false whenever the retry finds no target.
C5_TrueExactlyWhenFocused ==
    (click.phase = "done" /\ click.requests = 1) =>
        (click.returned = "true" <=> (click.found # NoNode /\ click.focused # NoNode))

\* C6: a click on a reference whose label has no target in a live root but
\* is in the index of the active document makes one navigation request and
\* one retry, and once the host has rendered the section around the line
\* anew the retry finds the target, whatever file-open and editor-change
\* notifications and render callbacks come in between.
C6_RetryFindsRerenderedTarget ==
    /\ click.requests <= 1
    /\ click.retries <= click.requests
    /\ (click.phase = "done" /\ click.returned = "true") =>
           (click.requests = 1 /\ click.retries = 1)
    /\ (click.phase = "done" /\ click.returned = "true" /\ click.rerendered) =>
           click.found # NoNode

\* the references of a page, as a set
ReferenceSet(tree) ==
    { ReferencesUnder(tree, Document)[k] : k \in DOMAIN ReferencesUnder(tree, Document) }

\* every reference in the page is a link to a label of the index or a
\* missing marker that reads the token of a label the index does not have
ReferencesFollowIndex ==
    \A p \in ReferenceSet(page) :
        IF HasClass(NodeAt(page, p), "crossref-ref-missing")
        THEN /\ NodeAt(page, p).tag = "span"
             /\ ~HasLabel(FileIndex(scenario), NodeAt(page, p).data.crossrefMissing)
             /\ textContent(NodeAt(page, p)) = << C_At >> \o NodeAt(page, p).data.crossrefMissing
        ELSE /\ NodeAt(page, p).tag = "a"
             /\ HasLabel(FileIndex(scenario), NodeAt(page, p).data.crossrefLabel)

\* C9: a reference to a label that is not in the index is a missing marker,
\* and a click on a missing marker runs no resolution, makes no navigation
\* request and focuses nothing.
C9_MissingMarkerIsInert ==
    /\ ReferencesFollowIndex
    /\ click.missing =>
           /\ click.phase = "done"
           /\ click.resolutions = 0
           /\ click.requests = 0
           /\ click.found = NoNode
           /\ click.focused = NoNode

\* C9 witness: the last click was on a missing marker of the page, which
\* also holds a link
C9_Witness ==
    /\ click.missing
    /\ click.serial >= 1
    /\ HasClass(NodeAt(page, click.target), "crossref-ref-missing")
    /\ \E p \in ReferenceSet(page) : NodeAt(page, p).tag = "a"

\* the roots of `roots` in which a strategy finds something for `label`
HitRoots(tree, roots, label, strategy) ==
    { k \in DOMAIN roots :
        CASE strategy = "direct" -> findDirectTargetInRoot(tree, roots[k], label) # NoNode
          [] strategy = "badge" -> findBadgeTargetInRoot(tree, roots[k], label) # NoNode
          [] OTHER -> /\ ActivePath \in DOMAIN indexCache
                      /\ HasLabel(indexCache[ActivePath].index, label)
                      /\ findTargetBySectionRange(tree, roots[k],
                             GetLabel(indexCache[ActivePath].index, label)) # NoNode }

\* what a strategy finds in the k-th root
HitIn(tree, roots, label, strategy, k) ==
    CASE strategy = "direct" -> findDirectTargetInRoot(tree, roots[k], label)
      [] strategy = "badge" -> findBadgeTargetInRoot(tree, roots[k], label)
      [] OTHER -> findTargetBySectionRange(tree, roots[k],
                      GetLabel(indexCache[ActivePath].index, label))

\* the strategy that decides: the first of direct, badge, span with a hit
Deciding(tree, roots, label) ==
    IF HitRoots(tree, roots, label, "direct") # {} THEN "direct"
    ELSE IF HitRoots(tree, roots, label, "badge") # {} THEN "badge"
    ELSE IF HitRoots(tree, roots, label, "span") # {} THEN "span"
    ELSE "none"

\* the target the order of strategies and of roots prescribes
Prescribed(tree, roots, label) ==
    IF Deciding(tree, roots, label) = "none" THEN NoTarget
    ELSE [ target |-> HitIn(tree, roots, label, Deciding(tree, roots, label),
                            MinOf(HitRoots(tree, roots, label, Deciding(tree, roots, label)))),
           via |-> Deciding(tree, roots, label) ]

\* a step in which a resolution ran: the first one of a click on a link, or
\* the retry
Resolves ==
    \/ click'.serial # click.serial /\ click'.resolutions = 1
    \/ click.phase = "waiting" /\ click'.phase = "done"

\* C10: a resolution returns a direct match if a candidate root has one,
\* otherwise a badge match if a root has one, otherwise a span match, tried
\* only when the label is in the cached index of the active document,
\* otherwise nothing; within a strategy the first root in list order with a
\* hit decides.
C10_FirstHitInFixedOrder ==
    [][ Resolves =>
            [target |-> click'.found, via |-> click'.via]
                = Prescribed(page, collectReferenceSearchRoots(page, click'.target, active),
                             click'.label) ]_vars

\* C10 witness: the document is decorated in two panes; a click on the link
\* of the second pane found the equation of the second pane by the direct
\* match though the first pane, which the last root holds, has one as well,
\* and the equation carries a badge that the second strategy would find.
C10_Witness ==
    /\ scenario = "two panes"
    /\ click.via = "direct"
    /\ Len(click.target) >= 2 /\ click.target[2] = 2
    /\ Len(click.found) >= 2 /\ click.found[2] = 2
    /\ findDirectTargetInRoot(page, SectionPath(1, 1), click.label) # NoNode
    /\ findBadgeTargetInRoot(page, SectionPath(2, 1), click.label) # NoNode
    /\ findBadgeTargetInRoot(page, SectionPath(2, 1), click.label) # click.found

(***************************************************************************)
(* Claims about malformed blocks, spans and titles in the index.           *)
(***************************************************************************)
\* line i (0-based) of the lines, and what the scans take it for
LineAt(lines, i) == lines[i + 1]
IsOpenLine(l) == THEOREM_START_PATTERN(trim(l))
IsCloseLine(l) == THEOREM_END_PATTERN(trim(l))
OpenLabel(l) == TheoremStartMatch(trim(l))

\* line i is a "$$" line with no "$$" line after it
UnclosedMath(lines, i) ==
    /\ IsMathDelimiter(LineAt(lines, i))
    /\ \A j \in (i + 1)..(Len(lines) - 1) : ~IsMathDelimiter(LineAt(lines, j))

\* line i is an open marker with neither a close marker nor an open marker
\* after it
UnterminatedOpen(lines, i) ==
    /\ IsOpenLine(LineAt(lines, i))
    /\ \A j \in (i + 1)..(Len(lines) - 1) :
           ~IsOpenLine(LineAt(lines, j)) /\ ~IsCloseLine(LineAt(lines, j))

\* no equation of the index starts on line i
NoEquationFrom(labels, i) ==
    \A k \in DOMAIN labels : ~(labels[k].kind = "equation" /\ labels[k].lineStart = i)

\* no theorem of the index starts on line i
NoTheoremFrom(labels, i) ==
    \A k \in DOMAIN labels : ~(labels[k].kind = "theorem" /\ labels[k].lineStart = i)

\* line i is the first open marker of its label
FirstOpenOfLabel(lines, i) ==
    \A j \in 0..(i - 1) :
        ~(IsOpenLine(LineAt(lines, j)) /\ OpenLabel(LineAt(lines, j)) = OpenLabel(LineAt(lines, i)))

\* C11 (as amended): a display-math block whose opening "$$" line has no
\* later "$$" line registers no equation label; a theorem-like block whose
\* open marker is followed by neither a close marker nor another open marker
\* is registered, from its open marker line, unless its label was declared
\* before; the build ends with an index for either.
C11_UnclosedMathSkippedOpenTheoremIndexed ==
    phase = "done" =>
        \A i \in 0..(Len(doc) - 1) :
            /\ UnclosedMath(doc, i) => NoEquationFrom(index, i)
            /\ (UnterminatedOpen(doc, i) /\ FirstOpenOfLabel(doc, i)) =>
                   \E k \in DOMAIN index :
                       /\ index[k].kind = "theorem"
                       /\ index[k].label = OpenLabel(LineAt(doc, i))
                       /\ index[k].lineStart = i

\* C11 witness: "$$" without a closing line, the label {#eq-a} after it and
\* an open marker as the last line: the index has thm-a alone.
C11_Witness ==
    /\ phase = "done"
    /\ doc = << L_Math, L_EqA, L_OpenThmA >>
    /\ Len(index) = 1
    /\ index[1].kind = "theorem"
    /\ index[1].lineStart = 2

\* C11 as stated: neither the unclosed display math nor the unterminated
\* theorem block registers a label.
C11_MalformedNeverIndexed ==
    phase = "done" =>
        \A i \in 0..(Len(doc) - 1) :
            /\ UnclosedMath(doc, i) => NoEquationFrom(index, i)
            /\ UnterminatedOpen(doc, i) => NoTheoremFrom(index, i)

\* C12: building the index is deterministic: whatever calls came before, on
\* this text or on others, a call returns the index that is a function of
\* its text alone, so two calls on one text return the same labels with the
\* same kind, prefix, number, title, lineStart and lineEnd.
C12_BuildDependsOnTextOnly ==
    phase = "done" => index = parseCrossrefIndex(JoinLines(doc))

\* C12 witness: a call on the text "$$" / "$$" / "{#eq-a}" has scanned its
\* last line and is about to return the labels that the call before it
\* returned: eq-a, numbered 1, on lines 0 to 2.
C12_Witness ==
    /\ phase = "theorem"
    /\ cursor >= Len(doc)
    /\ doc = << L_Math, L_Math, L_EqA >>
    /\ Len(index) = 1
    /\ index[1].lineEnd = 2
    /\ scan.labels = index

\* lines i < j < k: an open marker, the next open marker with no close marker
\* between them, and the close marker of the second block; both labels are
\* declared there for the first time
AdjacentBlocks(lines, i, j, k) ==
    /\ IsOpenLine(LineAt(lines, i))
    /\ IsOpenLine(LineAt(lines, j))
    /\ IsCloseLine(LineAt(lines, k))
    /\ \A m \in ((i + 1)..(j - 1)) \cup ((j + 1)..(k - 1)) :
           ~IsOpenLine(LineAt(lines, m)) /\ ~IsCloseLine(LineAt(lines, m))
    /\ FirstOpenOfLabel(lines, i)
    /\ FirstOpenOfLabel(lines, j)

\* no open marker before line i declares a label of the prefix of line i
FirstOfPrefix(lines, i) ==
    \A m \in 0..(i - 1) :
        IsOpenLine(LineAt(lines, m)) =>
            LabelPrefix(OpenLabel(LineAt(lines, m))) # LabelPrefix(OpenLabel(LineAt(lines, i)))

\* the index has the label of the open marker on line i, spanning from..to
SpanOfOpen(labels, lines, i, from, to) ==
    /\ HasLabel(labels, OpenLabel(LineAt(lines, i)))
    /\ GetLabel(labels, OpenLabel(LineAt(lines, i))).kind = "theorem"
    /\ GetLabel(labels, OpenLabel(LineAt(lines, i))).lineStart = from
    /\ GetLabel(labels, OpenLabel(LineAt(lines, i))).lineEnd = to

\* the display of the descriptor of the open marker on line i
DisplayOfOpen(labels, lines, i) ==
    descriptorDisplay(GetLabel(labels, OpenLabel(LineAt(lines, i))))

\* C13: for two adjacent theorem-like blocks with no close marker between
\* them, the first block ends on the line before the open marker of the
\* second, the second runs from its open marker to its close marker, and the
\* two are numbered per category: a first thm displays as "Theorem 1" and a
\* first lem as "Lemma 1".
C13_ImplicitCloseAndPerCategoryNumbers ==
    phase = "done" =>
        \A i, j, k \in 0..(Len(doc) - 1) :
            (i < j /\ j < k /\ AdjacentBlocks(doc, i, j, k)) =>
                /\ SpanOfOpen(index, doc, i, i, j - 1)
                /\ SpanOfOpen(index, doc, j, j, k)
                /\ (LabelPrefix(OpenLabel(LineAt(doc, i))) = S_thm /\ FirstOfPrefix(doc, i)) =>
                       DisplayOfOpen(index, doc, i) = << 84, 104, 101, 111, 114, 101, 109, 32, 49 >>
                /\ (LabelPrefix(OpenLabel(LineAt(doc, j))) = S_lem /\ FirstOfPrefix(doc, j)) =>
                       DisplayOfOpen(index, doc, j) = << 76, 101, 109, 109, 97, 32, 49 >>

\* C13 witness: ":::{#thm-a}" / "body" / ":::{#lem-a}" / ":::" has been
\* indexed: thm-a on lines 0 to 1, lem-a on lines 2 to 3, both numbered 1.
C13_Witness ==
    /\ phase = "done"
    /\ doc = << L_OpenThmA, L_Text, L_OpenLemA, L_Close >>
    /\ Len(index) = 2
    /\ index[1].lineEnd = 1
    /\ index[2].lineStart = 2
    /\ index[2].number = 1

(***************************************************************************)
(* Claims about the notifications of the host.                             *)
(***************************************************************************)
\* the step removes the entries of the paths of `notified` and leaves every
\* other entry as it was
Evicts(notified) ==
    /\ DOMAIN indexCache' = DOMAIN indexCache \ notified
    /\ \A q \in DOMAIN indexCache' : indexCache'[q] = indexCache[q]

\* the step is a get for a path that has no entry
GetWithoutEntry == got'.called /\ got' # got /\ got'.path \notin DOMAIN indexCache

\* C14: a modify, editor-change, delete or file-open notification for a path
\* removes the cache entry of that path, a rename removes the entries of the
\* old and of the new path, and either leaves the entries of all other paths
\* unchanged; a get for a path without entry builds the index of its text
\* and stores it, it returns no index stored before.
C14_NotificationEvictsItsPathsOnly ==
    [][ /\ \A p \in Paths :
               (OnModify(p) \/ OnEditorChange(p) \/ OnDelete(p) \/ OnFileOpen(p))
                   => Evicts({p})
        /\ \A p, q \in Paths : OnRename(p, q) => Evicts({p, q})
        /\ GetWithoutEntry =>
               /\ got'.outcome = "miss"
               /\ got'.index = parseCrossrefIndex(got'.source)
               /\ indexCache'[got'.path].index = got'.index ]_vars

\* C14 witness: after gets for the three paths a notification has removed
\* the entry of a.md; those of b.md and c.md are still stored.
C14_Witness ==
    /\ ~got.called
    /\ DOMAIN indexCache = {"b.md", "c.md"}
    /\ indexCache["b.md"].index # << >>
    /\ indexCache["c.md"].index # indexCache["b.md"].index

(***************************************************************************)
(* The opening fragment of a theorem block: a text is typed, indexed, and  *)
(* the fragment that holds the open marker of one of its theorem           *)
(* descriptors is rendered.                                                *)
(***************************************************************************)
OpeningLines == {L_OpenThmA, L_OpenLemA, L_Heading, L_Text, L_Close}

MaxOpeningLines == 4

\* the fragment of an open marker as the host renders it
OpeningFragment(marker) == Element("div", {}, << Element("p", {}, << TextNode(marker) >>) >>)

\* the match of the opening fragment of a descriptor
StartMatch(descriptor) ==
    [found |-> TRUE, descriptor |-> descriptor, isStartSection |-> TRUE, isFullyInside |-> FALSE]

OpeningInit ==
    /\ CacheIdle
    /\ ViewIdle
    /\ RefIdle
    /\ \E l \in OpeningLines : doc = << l >>
    /\ phase = "idle"
    /\ cursor = 0
    /\ scan = EmptyScan
    /\ index = << >>

OpeningTypeLine(l) ==
    /\ phase = "idle"
    /\ LinesIn(Append(doc, l), OpeningLines, MaxOpeningLines)
    /\ doc' = Append(doc, l)
    /\ UNCHANGED <<phase, cursor, scan, index>>
    /\ ParseFrame

OpeningBuild ==
    /\ phase = "idle"
    /\ phase' = "done"
    /\ index' = parseCrossrefIndex(JoinLines(doc))
    /\ UNCHANGED <<doc, cursor, scan>>
    /\ ParseFrame

\* renderTheoremSection on the opening fragment of descriptor k
RenderOpening(k) ==
    /\ phase = "done"
    /\ k \in DOMAIN index
    /\ index[k].kind = "theorem"
    /\ page' = renderTheoremSection(
                   [tree |-> OpeningFragment(doc[index[k].lineStart + 1]), edits |-> << >>],
                   << >>, StartMatch(index[k]), ActivePath, JoinLines(doc), index).tree
    /\ UNCHANGED <<scenario, passes, mode, active, click, timers, suppressTimer, indexCache>>
    /\ ViewFrame

OpeningNext ==
    \/ \E l \in OpeningLines : OpeningTypeLine(l)
    \/ OpeningBuild
    \/ \E k \in 1..MaxOpeningLines : RenderOpening(k)

SpecOpening == OpeningInit /\ [][OpeningNext]_vars

(***************************************************************************)
(* Claims about the body of a theorem presentation.                        *)
(***************************************************************************)
\* an opening fragment has been rendered
OpeningRendered == page.tag = "div" /\ page.kids # << >>

\* the descriptor whose presentation the page holds
RenderedDescriptor ==
    CHOOSE d \in { index[k] : k \in DOMAIN index } : d.label = page.kids[1].data.crossrefTarget

\* the 0-based line that ends the block opened on line i: the first close
\* or open marker after it, the number of lines when there is none
BlockTerminator(lines, i) ==
    IF \E j \in (i + 1)..(Len(lines) - 1) : IsCloseLine(LineAt(lines, j)) \/ IsOpenLine(LineAt(lines, j))
    THEN CHOOSE j \in (i + 1)..(Len(lines) - 1) :
             /\ IsCloseLine(LineAt(lines, j)) \/ IsOpenLine(LineAt(lines, j))
             /\ \A m \in (i + 1)..(j - 1) :
                    ~(IsCloseLine(LineAt(lines, m)) \/ IsOpenLine(LineAt(lines, m)))
    ELSE Len(lines)

\* the source lines of the block opened on line i, after the open marker
\* line up to the block's end, the terminating marker excluded
BlockBody(lines, i) == SubSeq(lines, i + 2, BlockTerminator(lines, i))

\* C15: the presentation of a theorem descriptor renders as its body the
\* source lines of the block after the open marker line up to the block's
\* end, the first heading line removed, whether a close marker, the next
\* open marker or the end of the document ends the block.
C15_BodyIsTheWholeBlock ==
    OpeningRendered =>
        page.kids[1] =
            TheoremNodeOf(RenderedDescriptor,
                          TheoremHeading(RenderedDescriptor,
                                         TheoremBodyLines(RenderedDescriptor, doc)),
                          SpliceHeading(BlockBody(doc, RenderedDescriptor.lineStart)),
                          ActivePath, index)

\* the presentation of a block that a close marker ends renders the whole
\* body of the block
C15_ClosedBlockBodyIsWhole ==
    (OpeningRendered /\ BlockTerminator(doc, RenderedDescriptor.lineStart) < Len(doc)
                     /\ IsCloseLine(LineAt(doc, BlockTerminator(doc, RenderedDescriptor.lineStart))))
        => page.kids[1] =
               TheoremNodeOf(RenderedDescriptor,
                             TheoremHeading(RenderedDescriptor,
                                            TheoremBodyLines(RenderedDescriptor, doc)),
                             SpliceHeading(BlockBody(doc, RenderedDescriptor.lineStart)),
                             ActivePath, index)

(***************************************************************************)
(* The post processor on the fragments of a text with theorem blocks: a    *)
(* text is typed and indexed, and processSection runs on the fragment of   *)
(* one of its sections as the host renders it, one paragraph for each run  *)
(* of non-blank lines.                                                     *)
(***************************************************************************)
FragmentLines == {L_OpenThmA, L_OpenLemA, L_Text, L_Close, L_Blank}

MaxFragmentLines == 4

\* lines a..b (0-based) are a section of the host: a maximal run of
\* non-blank lines
HostSection(lines, a, b) ==
    /\ a <= b
    /\ b < Len(lines)
    /\ \A m \in a..b : trim(LineAt(lines, m)) # S_Empty
    /\ IF a = 0 THEN TRUE ELSE trim(LineAt(lines, a - 1)) = S_Empty
    /\ IF b = Len(lines) - 1 THEN TRUE ELSE trim(LineAt(lines, b + 1)) = S_Empty

FragmentInit ==
    /\ CacheIdle
    /\ ViewIdle
    /\ RefIdle
    /\ \E l \in FragmentLines : doc = << l >>
    /\ phase = "idle"
    /\ cursor = 0
    /\ scan = EmptyScan
    /\ index = << >>

FragmentTypeLine(l) ==
    /\ phase = "idle"
    /\ LinesIn(Append(doc, l), FragmentLines, MaxFragmentLines)
    /\ doc' = Append(doc, l)
    /\ UNCHANGED <<phase, cursor, scan, index>>
    /\ ParseFrame

\* processSection(element, context) on the fragment of lines a..b
ProcessFragment(a, b) ==
    /\ phase = "done"
    /\ HostSection(doc, a, b)
    /\ page' = DecorateSection(
                   Paragraph(<< TextNode(JoinLines(SubSeq(doc, a + 1, b + 1))) >>),
                   << >>, SectionInfo(a, b), JoinLines(doc), index, ActivePath).tree
    /\ UNCHANGED <<scenario, passes, mode, active, click, timers, suppressTimer, indexCache>>
    /\ ViewFrame

FragmentNext ==
    \/ \E l \in FragmentLines : FragmentTypeLine(l)
    \/ OpeningBuild
    \/ \E a, b \in 0..MaxFragmentLines : ProcessFragment(a, b)

SpecFragment == FragmentInit /\ [][FragmentNext]_vars

(***************************************************************************)
(* Claims about the detection of theorem sections.                         *)
(***************************************************************************)
\* processSection has run on a fragment: its line span is on the element
FragmentProcessed == page.tag = "div" /\ page.data.crossrefLineStart # S_Empty

\* the line span the fragment claims, read back from the element
FragmentStart == page.data.crossrefLineStart[1] - 48
FragmentEnd == page.data.crossrefLineEnd[1] - 48

\* the text of the fragment as the host rendered it
FragmentText == JoinLines(SubSeq(doc, FragmentStart + 1, FragmentEnd + 1))

TheoremDescriptors == { index[k] : k \in { m \in DOMAIN index : index[m].kind = "theorem" } }

\* the fragment is the opening line of descriptor d
IsOpeningOf(d) ==
    \/ IsOpenLine(FragmentText) /\ OpenLabel(FragmentText) = d.label
    \/ FragmentStart <= d.lineStart /\ d.lineStart <= FragmentEnd

IsInsideOf(d) == d.lineStart <= FragmentStart /\ FragmentEnd <= d.lineEnd

OverlapsSpanOf(d) == d.lineEnd >= FragmentStart /\ d.lineStart <= FragmentEnd

\* what the run left in the fragment
ShowsPresentationOf(d) ==
    /\ Len(page.kids) = 1
    /\ HasClass(page.kids[1], "crossref-theorem")
    /\ page.kids[1].data.crossrefTarget = d.label

FragmentCleared == page.kids = << >>

FragmentFellThrough ==
    /\ page.kids # << >>
    /\ ~HasClass(page.kids[1], "crossref-theorem")

\* C16: a fragment that is the opening line of a theorem descriptor shows
\* that theorem's presentation; a fragment that is no opening line and lies
\* fully inside a theorem descriptor's span is cleared; a fragment falls
\* through to the plain decoration only if its span overlaps the span of no
\* theorem descriptor.
C16_ThreeOutcomes ==
    FragmentProcessed =>
        /\ (\E d \in TheoremDescriptors : IsOpeningOf(d))
               => \E d \in TheoremDescriptors : IsOpeningOf(d) /\ ShowsPresentationOf(d)
        /\ ((\A d \in TheoremDescriptors : ~IsOpeningOf(d))
                /\ (\E d \in TheoremDescriptors : IsInsideOf(d)))
               => FragmentCleared
        /\ FragmentFellThrough => \A d \in TheoremDescriptors : ~OverlapsSpanOf(d)

(***************************************************************************)
(* Claims about the focus flash.                                           *)
(***************************************************************************)
\* the target of the k-th pending 1200 ms timer is on the page and has the
\* flash class
StillFlashing(k) ==
    timers[k] # NoNode => HasClass(NodeAt(page, timers[k]), "crossref-target-flash")

\* C17: the flash class that a resolution has put on its target stays there
\* until the 1200 ms timer of that resolution fires; the timer of another
\* resolution does not remove it before.
C17_FlashLastsUntilItsOwnTimer == \A k \in DOMAIN timers : StillFlashing(k)

(***************************************************************************)
(* Claims about the line spans of theorem descriptors.                     *)
(***************************************************************************)
TheoremEntries == { k \in DOMAIN index : index[k].kind = "theorem" }

\* the spans of two descriptors share no line
DisjointSpans(a, b) == a.lineEnd < b.lineStart \/ b.lineEnd < a.lineStart

\* the line a block opened on line i ends on: the close marker's line, the
\* line before the next open marker, or `atEnd` when neither follows
BlockEnd(lines, i, atEnd) ==
    Then(BlockTerminator(lines, i),
         LAMBDA t : IF t >= Len(lines) THEN atEnd
                    ELSE IF IsCloseLine(LineAt(lines, t)) THEN t
                    ELSE t - 1)

\* the last line that has a character of its own or a line break after it:
\* the line before the last when the last line is empty
LastWrittenLine(lines) ==
    IF Len(lines) > 1 /\ lines[Len(lines)] = S_Empty THEN Len(lines) - 2 ELSE Len(lines) - 1

\* C18: in every index the line spans of distinct theorem descriptors are
\* pairwise disjoint and lie within the source with lineStart <= lineEnd; a
\* close marker ends a block on its line, an open marker on the line before
\* it, and the end of the document on the last line, or on the line before
\* the last when the last line is empty.
C18_TheoremSpansDisjointAndInRange ==
    phase = "done" =>
        /\ \A k, m \in TheoremEntries : k # m => DisjointSpans(index[k], index[m])
        /\ \A k \in TheoremEntries :
               /\ 0 <= index[k].lineStart
               /\ index[k].lineStart <= index[k].lineEnd
               /\ index[k].lineEnd <= Len(doc) - 1
               /\ index[k].lineEnd = BlockEnd(doc, index[k].lineStart, LastWrittenLine(doc))

\* the statement with the end of the document ending a block on the last line
C18_EndOfDocumentEndsOnLastLine ==
    phase = "done" =>
        \A k \in TheoremEntries :
            index[k].lineEnd = BlockEnd(doc, index[k].lineStart, Len(doc) - 1)

\* C18 witness: ":::{#thm-a}" / "body" / ":::{#lem-a}" / "" has been
\* indexed: thm-a spans lines 0 to 1 and lem-a line 2, not the empty last
\* line.
C18_Witness ==
    /\ phase = "done"
    /\ doc = << L_OpenThmA, L_Text, L_OpenLemA, L_Blank >>
    /\ Len(index) = 2
    /\ index[1].lineEnd = 1
    /\ index[2].lineStart = 2
    /\ index[2].lineEnd = 2

(***************************************************************************)
(* Claims about the equation scan.                                         *)
(***************************************************************************)
\* the lines (0-based) that consist of the display-math delimiter only
MathLineSet(lines) == { m \in 0..(Len(lines) - 1) : trim(LineAt(lines, m)) = S_Math }

\* line o opens a display-math block: it is a delimiter line that no block
\* before it has taken as its close, and a delimiter line follows it
OpensMath(lines, o) ==
    /\ o \in MathLineSet(lines)
    /\ Cardinality({ m \in MathLineSet(lines) : m < o }) % 2 = 0
    /\ \E c \in MathLineSet(lines) : c > o

\* the closing line of the block opened on line o
MathCloseOf(lines, o) ==
    CHOOSE c \in MathLineSet(lines) :
        c > o /\ \A m \in MathLineSet(lines) : m > o => c <= m

\* the first non-blank line after the close of the block opened on line o,
\* the number of lines when there is none
LineAfterMath(lines, o) ==
    IF \E n \in (MathCloseOf(lines, o) + 1)..(Len(lines) - 1) : trim(LineAt(lines, n)) # S_Empty
    THEN CHOOSE n \in (MathCloseOf(lines, o) + 1)..(Len(lines) - 1) :
             /\ trim(LineAt(lines, n)) # S_Empty
             /\ \A m \in (MathCloseOf(lines, o) + 1)..(n - 1) : trim(LineAt(lines, m)) = S_Empty
    ELSE Len(lines)

\* the label of the block opened on line o, "" when its next non-blank line
\* is no equation label
MathLabelOf(lines, o) ==
    IF LineAfterMath(lines, o) < Len(lines)
    THEN EquationLabelMatch(trim(LineAt(lines, LineAfterMath(lines, o))))
    ELSE S_Empty

LabelledMath(lines, o) == OpensMath(lines, o) /\ MathLabelOf(lines, o) # S_Empty

\* the block opened on line o is the first that carries its label
FirstLabelledMath(lines, o) ==
    /\ LabelledMath(lines, o)
    /\ \A p \in 0..(o - 1) :
           LabelledMath(lines, p) => MathLabelOf(lines, p) # MathLabelOf(lines, o)

EquationEntries == { k \in DOMAIN index : index[k].kind = "equation" }

\* C19: the index holds an equation label exactly when a display-math block
\* (a delimiter line and the next delimiter line after it) is followed, as
\* its first non-blank line, by the label line of that label; the descriptor
\* spans from the opening delimiter line of the first such block to its
\* label line; blocks without label line are not indexed and take no
\* number, and a closing delimiter line opens no block.
C19_EquationRegisteredExactlyWhenLabelled ==
    phase = "done" =>
        /\ \A o \in 0..(Len(doc) - 1) :
               FirstLabelledMath(doc, o) =>
                   \E k \in EquationEntries :
                       /\ index[k].label = MathLabelOf(doc, o)
                       /\ index[k].lineStart = o
                       /\ index[k].lineEnd = LineAfterMath(doc, o)
                       /\ index[k].number =
                              1 + Cardinality({ p \in 0..(o - 1) : FirstLabelledMath(doc, p) })
        /\ \A k \in EquationEntries :
               /\ index[k].lineStart \in 0..(Len(doc) - 1)
               /\ FirstLabelledMath(doc, index[k].lineStart)
               /\ index[k].label = MathLabelOf(doc, index[k].lineStart)

\* C19 witness: "$$" / "$$" / "body" / "$$" / "$$" / "{#eq-a}" has been
\* indexed: the first block has no label line and is not indexed, the
\* second is equation 1 on lines 3 to 5.
C19_Witness ==
    /\ phase = "done"
    /\ doc = << L_Math, L_Math, L_Text, L_Math, L_Math, L_EqA >>
    /\ Len(index) = 1
    /\ index[1].kind = "equation"
    /\ index[1].number = 1
    /\ index[1].lineStart = 3
    /\ index[1].lineEnd = 5

(***************************************************************************)
(* Claims about the titles of theorem descriptors.                         *)
(***************************************************************************)
\* the first heading line of the block opened on line i, between the open
\* marker and the line that ends the block; the number of lines when the
\* block has none
FirstHeadingOfBlock(lines, i) ==
    IF \E n \in (i + 1)..(BlockTerminator(lines, i) - 1) : HeadingMatch(LineAt(lines, n)).matched
    THEN CHOOSE n \in (i + 1)..(BlockTerminator(lines, i) - 1) :
             /\ HeadingMatch(LineAt(lines, n)).matched
             /\ \A m \in (i + 1)..(n - 1) : ~HeadingMatch(LineAt(lines, m)).matched
    ELSE Len(lines)

\* the next open marker ends the block opened on line i
ClosedByNextOpen(lines, i) ==
    /\ BlockTerminator(lines, i) < Len(lines)
    /\ IsOpenLine(LineAt(lines, BlockTerminator(lines, i)))

\* the line after the open marker on line i can serve as a title
HasFallbackLine(lines, i) ==
    /\ i + 1 < Len(lines)
    /\ trim(LineAt(lines, i + 1)) # S_Empty
    /\ ~IsOpenLine(LineAt(lines, i + 1))
    /\ ~IsCloseLine(LineAt(lines, i + 1))

\* the title of the block opened on line i by the rule of C20
TitleOfBlock(lines, i) ==
    IF FirstHeadingOfBlock(lines, i) < Len(lines)
    THEN HeadingMatch(LineAt(lines, FirstHeadingOfBlock(lines, i))).title
    ELSE IF ClosedByNextOpen(lines, i) /\ HasFallbackLine(lines, i)
    THEN StripHeadingPrefix(trim(LineAt(lines, i + 1)))
    ELSE S_Empty

\* C20: the title of a theorem descriptor is the text of the first heading
\* line of its block; without heading line it is the line after the open
\* marker, heading prefix removed, if the next open marker ends the block
\* and that line is non-blank and no marker; otherwise it is empty.
C20_TitleOfItsOwnBlock ==
    phase = "done" =>
        \A k \in TheoremEntries : index[k].title = TitleOfBlock(doc, index[k].lineStart)

(***************************************************************************)
(* Claims about the assignment of targets to the hosts of a fragment.      *)
(***************************************************************************)
\* the descriptors of a kind that a fragment with the span of `info` selects
SelectedOfKind(labels, info, kind) ==
    { k \in DOMAIN labels :
        /\ labels[k].kind = kind
        /\ labels[k].lineEnd >= info.lineStart - 1
        /\ labels[k].lineStart <= info.lineEnd + 1 }

\* the place of descriptor k among the selected ones, ordered by lineStart,
\* then lineEnd, then discovery
PlaceAmong(labels, selected, k) ==
    1 + Cardinality({ j \in selected \ {k} :
                        \/ ComesBefore(labels[j], labels[k], TRUE)
                        \/ ~ComesBefore(labels[k], labels[j], TRUE) /\ j < k })

\* the i-th selected descriptor
SelectedAt(labels, selected, i) ==
    labels[CHOOSE k \in selected : PlaceAmong(labels, selected, k) = i]

\* the hosts of the images of a fragment, in document order
ImageHosts(tree, root) ==
    Then(querySelectorAll(tree, root, LAMBDA n : n.tag = "img"),
         LAMBDA images : [k \in DOMAIN images |-> FigureHost(tree, images[k])])

\* a host carries the label as target metadata and a badge of the class
\* that shows the display of the descriptor
HostShows(tree, host, descriptor, class) ==
    /\ NodeAt(tree, host).data.crossrefTarget = descriptor.label
    /\ \E b \in DOMAIN NodeAt(tree, host).kids :
           /\ HasClass(NodeAt(tree, host).kids[b], class)
           /\ NodeAt(tree, host).kids[b].data.label = descriptor.label
           /\ textContent(NodeAt(tree, host).kids[b]) = descriptorDisplay(descriptor)

\* the first min(labels, hosts) hosts show the selected descriptors of the
\* kind, one each and in order
PairedInOrder(tree, hosts, labels, selected, class) ==
    \A i \in 1..Min(Cardinality(selected), Len(hosts)) :
        HostShows(tree, hosts[i], SelectedAt(labels, selected, i), class)

\* section k of a pane has been decorated and shows its targets as selected
SectionPairedAsSelected(leaf, k) ==
    /\ PairedInOrder(page, collectEquationHosts(page, SectionPath(leaf, k)),
                     FileIndex(scenario),
                     SelectedOfKind(FileIndex(scenario), Sections(scenario)[k].info, "equation"),
                     "crossref-eq-number")
    /\ PairedInOrder(page, ImageHosts(page, SectionPath(leaf, k)),
                     FileIndex(scenario),
                     SelectedOfKind(FileIndex(scenario), Sections(scenario)[k].info, "figure"),
                     "crossref-fig-number")

\* C21: a decorated fragment shows, on its i-th math host, the i-th equation
\* descriptor whose span reaches the fragment's span widened by one line on
\* each side, and on its i-th image host the i-th such figure descriptor:
\* the host carries the label as target metadata and a badge with the
\* descriptor's display.
C21_HostsPairedWithSelectedLabels ==
    \A s \in SectionIds :
        (IsRendered(s[1], s[2]) /\ passes[s] >= 1) => SectionPairedAsSelected(s[1], s[2])

(***************************************************************************)
(* Claims about the targets of a whole rendered document.                  *)
(***************************************************************************)
\* every fragment of pane `leaf` has been rendered and decorated once
PaneDecoratedOnce(leaf) ==
    \A k \in DOMAIN Sections(scenario) : IsRendered(leaf, k) /\ passes[<< leaf, k >>] = 1

\* the elements of fragment k of a pane that are marked as target of a label
HostsOfLabel(leaf, k, label) ==
    { h \in DOMAIN Descendants(page, SectionPath(leaf, k)) :
        NodeAt(page, Descendants(page, SectionPath(leaf, k))[h]).data.crossrefTarget = label }

\* the number of elements of a pane marked as target of a label
HostCount(leaf, label) ==
    Cardinality(UNION { {k} \X HostsOfLabel(leaf, k, label) : k \in DOMAIN Sections(scenario) })

\* the span of fragment k overlaps the declared span of the descriptor
FragmentOverlaps(k, descriptor) ==
    /\ descriptor.lineEnd >= Sections(scenario)[k].info.lineStart
    /\ descriptor.lineStart <= Sections(scenario)[k].info.lineEnd

\* C22: when every fragment of a document has been decorated once, every
\* equation or figure label is the target of at most one host of the
\* rendered document, and a host marked as target of a label lies in a
\* fragment whose span overlaps the declared span of the label.
C22_OneHostPerLabelInItsOwnFragment ==
    \A leaf \in 1..Panes(scenario) :
        PaneDecoratedOnce(leaf) =>
            \A d \in { FileIndex(scenario)[n] : n \in DOMAIN FileIndex(scenario) } :
                d.kind \in {"equation", "figure"} =>
                    /\ HostCount(leaf, d.label) <= 1
                    /\ \A k \in DOMAIN Sections(scenario) :
                           HostsOfLabel(leaf, k, d.label) # {} => FragmentOverlaps(k, d)

(***************************************************************************)
(* The window of the native-flash suppression                              *)
(***************************************************************************)

\* a timeout that was set is run by the event loop
SpecClickFair == ClickInit /\ [][ClickNext]_vars /\ WF_vars(SuppressExpire)

\* the body carries the class of startNativeFlashSuppression
SuppressClassOn == HasClass(NodeAt(page, Body), "crossref-suppress-native-flash")

\* the class is on the body exactly while the one timer is pending
SuppressWindow ==
    /\ suppressTimer <= 1
    /\ SuppressClassOn <=> suppressTimer = 1

\* C23: the suppression lasts a bounded window: at most one suppression
\* timer is pending at any time, the suppress class is on the body exactly
\* while that timer (the one of the most recent start) is pending, and the
\* class is eventually taken off again, by the timer or by the unload, also
\* when the navigation request failed
C23_SuppressionWindowIsBounded ==
    /\ []SuppressWindow
    /\ SuppressClassOn ~> ~SuppressClassOn

\* the navigation request of a click failed and the class is still on the
\* body, its timer pending
C23_Witness ==
    /\ click.phase = "done"
    /\ click.requests = 1
    /\ click.returned = "false"
    /\ suppressTimer = 1
    /\ SuppressClassOn

(***************************************************************************)
(* The roots a click searches                                              *)
(***************************************************************************)

\* the handler of the last click has collected its roots
RootsCollected == click.roots # << >>

\* root `inner` lies inside root `outer`
RootInside(inner, outer) == inner # outer /\ IsPrefix(outer, inner)

\* no root twice, and the document last
RootsDistinctAndDocumentLast ==
    RootsCollected =>
        /\ \A i, j \in DOMAIN click.roots : click.roots[i] = click.roots[j] => i = j
        /\ click.roots[Len(click.roots)] = Document

\* C24: the roots collected for a click are ordered from the narrowest to
\* the broadest: of two nested roots the contained one comes first; no root
\* is in the list twice and the last one is the document
C24_RootsNarrowestFirst ==
    /\ RootsDistinctAndDocumentLast
    /\ RootsCollected =>
           \A i, j \in DOMAIN click.roots :
               RootInside(click.roots[i], click.roots[j]) => i < j

(***************************************************************************)
(* Claims about label-token stripping.                                     *)
(***************************************************************************)
\* the text nodes of a fragment
TextPaths(tree) ==
    Then(Descendants(tree, << >>),
         LAMBDA all : { all[k] : k \in { j \in DOMAIN all : IsText(NodeAt(tree, all[j])) } })

\* the elements of a fragment
ElementPaths(tree) ==
    Then(Descendants(tree, << >>),
         LAMBDA all : { all[k] : k \in { j \in DOMAIN all : ~IsText(NodeAt(tree, all[j])) } })

\* the text node lies in code or math
InCodeOrMath(tree, path) ==
    closest(tree, parentElement(tree, path),
            LAMBDA n : \/ n.tag \in {"code", "pre", "mjx-container"}
                       \/ n.classes \cap {"math", "cm-inline-code", "cm-formatting-code"} # {})
        # NoNode

\* the offsets of the text at which a {#<label>} token starts
TokenStarts(text) == { j \in 0..(Len(text) - 1) : MatchLabelTokenAt(text, j, PREFIXES).end >= 0 }

\* the offsets of the characters of the tokens of the text
TokenOffsets(text) ==
    UNION { j..(MatchLabelTokenAt(text, j, PREFIXES).end - 1) : j \in TokenStarts(text) }

\* the text without the characters of its tokens, the others in their order
WithoutTokens(text) ==
    Then(TokenOffsets(text),
         LAMBDA offsets :
             Then(SelectSeq([i \in 1..Len(text) |-> i], LAMBDA i : (i - 1) \notin offsets),
                  LAMBDA kept : [k \in 1..Len(kept) |-> text[kept[k]]]))

\* the text is exactly a theorem block-open marker
IsOpenMarkerText(text) == THEOREM_START_PATTERN(trim(text))

\* no text run outside code and math that is not an open marker holds a token
NoTokenLeft ==
    \A p \in TextPaths(decorated.tree) :
        \/ InCodeOrMath(decorated.tree, p)
        \/ IsOpenMarkerText(NodeAt(decorated.tree, p).text)
        \/ TokenStarts(NodeAt(decorated.tree, p).text) = {}

\* a second application changes nothing
StripIsIdempotent == stripLabelTokens(decorated.tree, << >>) = decorated.tree

\* stripping changes the values of text nodes only, every text is kept or
\* loses the characters of its tokens and no others, and a text that is an
\* open marker is kept
C25_OnlyTokensRemoved ==
    decorated.done =>
        /\ TextPaths(decorated.tree) = TextPaths(fragment)
        /\ ElementPaths(decorated.tree) = ElementPaths(fragment)
        /\ \A p \in ElementPaths(fragment) :
               /\ NodeAt(decorated.tree, p).tag = NodeAt(fragment, p).tag
               /\ NodeAt(decorated.tree, p).classes = NodeAt(fragment, p).classes
        /\ \A p \in TextPaths(fragment) :
               /\ NodeAt(decorated.tree, p).text
                      \in {NodeAt(fragment, p).text, WithoutTokens(NodeAt(fragment, p).text)}
               /\ IsOpenMarkerText(NodeAt(fragment, p).text)
                      => NodeAt(decorated.tree, p) = NodeAt(fragment, p)

\* C25: label-token stripping is idempotent and removes only tokens: after
\* one application no text run outside code and math that is not a theorem
\* block-open marker holds a {#<label>} token, a second application changes
\* nothing, every character that is not part of a removed token is kept in
\* its order, and a text that is exactly an open marker is unchanged
C25_StrippingIsIdempotent ==
    decorated.done =>
        /\ NoTokenLeft
        /\ StripIsIdempotent
        /\ C25_OnlyTokensRemoved

(***************************************************************************)
(* Claims about the navigation fallback.                                   *)
(***************************************************************************)
\* the step is a click whose first resolution found nothing:
\* navigateToReferenceLabel is called
NavigateCalled ==
    /\ click'.serial = click.serial + 1
    /\ click'.label # S_Empty
    /\ click'.found = NoNode

\* at the click the cache has no entry for the active file, or the entry's
\* index has not the label
NoLiveEntryAtClick ==
    IF ActivePath \in DOMAIN indexCache
    THEN ~HasLabel(indexCache[ActivePath].index, click'.label)
    ELSE TRUE

\* C26: the navigation fallback needs a live cache entry: when the cache has
\* no entry for the active file at the click, or the label is not in the
\* entry's index, navigateToReferenceLabel requests no navigation, starts no
\* flash suppression and returns false, also for a label that the text of
\* the file declares
C26_FallbackNeedsLiveCacheEntry ==
    [][ (NavigateCalled /\ NoLiveEntryAtClick) =>
            /\ click'.requests = 0
            /\ click'.returned = "false"
            /\ click'.phase = "done"
            /\ suppressTimer' = suppressTimer
            /\ page' = page ]_vars

\* a click on the link of a label that the text declares has returned false
\* without a request, the entry of the file having been evicted
C26_Witness ==
    /\ click.phase = "done"
    /\ click.label # S_Empty
    /\ HasLabel(FileIndex(scenario), click.label)
    /\ ~click.missing
    /\ click.found = NoNode
    /\ click.requests = 0
    /\ click.returned = "false"
    /\ ActivePath \notin DOMAIN indexCache
    /\ ~SuppressClassOn

====
